---- MODULE Spec2Model ----
(***************************************************************************)
(* Verification model of the UrbanismoVerde analysis pipeline.             *)
(*                                                                         *)
(* Numbers.  The source computes in binary floating point; the model       *)
(* computes the same expressions in exact fixed point:                     *)
(*   coordinates          1e-5 degree   (grid unit "u")                    *)
(*   centroid             1e-6 degree                                      *)
(*   areas                1e-2 m2       (suffix _c)                        *)
(*   lengths              mm                                               *)
(*   money                euro cent in results, 1e-3 euro in arguments,    *)
(*                        1e-5 euro where a product with a percentage has  *)
(*                        not been rounded yet                             *)
(* round(x, k) is modelled by RoundDiv: nearest multiple, ties to even.    *)
(* int(x) is modelled by \div on non-negative operands.                    *)
(***************************************************************************)
EXTENDS Integers, Sequences, FiniteSets, TLC

(***************************************************************************)
(* Bounds of the model                                                     *)
(***************************************************************************)
\* longest coordinate ring a request carries
MaxPts == 3

(***************************************************************************)
(* Arithmetic helpers                                                      *)
(***************************************************************************)
Abs(x) == IF x < 0 THEN -x ELSE x

Max(a, b) == IF a >= b THEN a ELSE b

Min(a, b) == IF a <= b THEN a ELSE b

\* round(n / d) for d > 0: nearest integer, ties to the even neighbour
RoundDiv(n, d) ==
    LET q == n \div d
        r == n % d
    IN  IF 2 * r < d THEN q
        ELSE IF 2 * r > d THEN q + 1
        ELSE IF q % 2 = 0 THEN q ELSE q + 1

\* value a Python division takes when the denominator is zero: the
\* ZeroDivisionError that unwinds the caller
ZeroDivisionError == -2147483647

\* n / d rounded to an integer of the result unit, raising on d = 0
PyDiv(n, d) == IF d = 0 THEN ZeroDivisionError ELSE RoundDiv(n, d)

RECURSIVE SqrtSearch(_, _, _)
SqrtSearch(n, lo, hi) ==
    IF lo >= hi THEN lo
    ELSE LET mid == (lo + hi + 1) \div 2
         IN  IF mid * mid <= n THEN SqrtSearch(n, mid, hi)
             ELSE SqrtSearch(n, lo, mid - 1)

\* floor(sqrt(n)) for 0 <= n < 2^30
ISqrt(n) == SqrtSearch(n, 0, 32767)

RECURSIVE SumSeq(_)
SumSeq(s) == IF s = <<>> THEN 0 ELSE Head(s) + SumSeq(Tail(s))

(***************************************************************************)
(* GEOSPATIAL UTILITIES  (src/api/analyze.py, same text in                 *)
(* src/api/utils/geospatial.py)                                            *)
(* A coordinate is <<lon, lat>> in grid units of 1e-5 degree.              *)
(***************************************************************************)
\* analyze.py:30-32, per grid unit: mm, cm and mm
EARTH_RADIUS_M == 1112
METERS_PER_DEGREE_LAT == 111
METERS_PER_DEGREE_LON_AT_EQUATOR == 1113

\* math.cos(math.radians(lat)) * 1000 for a latitude in 1e-6 degree,
\* linearised around 40.4 degrees (slope -sin(40.4 deg) * pi/180 per degree);
\* exact to 1e-3 on the band 38..42 degrees the requests lie in; cos(0) = 1
CosE3(lat_micro) ==
    IF lat_micro = 0 THEN 1000
    ELSE 762 - RoundDiv((lat_micro - 40400000) * 113, 10000000)

\* haversine_distance in mm.  For the separations of a roof polygon the
\* haversine a = sin^2(dlat/2) + cos(lat1) cos(lat2) sin^2(dlon/2) and
\* c = 2 atan2(sqrt a, sqrt(1-a)) reduce to R * sqrt(dlat^2 + cos^2 dlon^2)
haversine_distance(lat1, lon1, lat2, lon2) ==
    LET dy == EARTH_RADIUS_M * (lat2 - lat1)
        cosl == CosE3(((lat1 + lat2) * 10) \div 2)
        dx == (EARTH_RADIUS_M * (lon2 - lon1) * cosl) \div 1000
    IN  ISqrt(dy * dy + dx * dx)

Lon(p) == p[1]
Lat(p) == p[2]

\* get_center_coordinates: (center_lat, center_lon) in 1e-6 degree
get_center_coordinates(coordinates) ==
    IF Len(coordinates) = 0 THEN <<0, 0>>
    ELSE LET n == Len(coordinates)
             slon == SumSeq([i \in 1..n |-> Lon(coordinates[i])])
             slat == SumSeq([i \in 1..n |-> Lat(coordinates[i])])
         IN  <<RoundDiv(slat * 10, n), RoundDiv(slon * 10, n)>>

\* the shoelace sum  sum_i (lon_i lat_{i+1} - lon_{i+1} lat_i)  in u^2.  The
\* sum does not change when the ring is translated, so it is taken on the
\* offsets from the first vertex, which keeps the products small.
ShoelaceSum(coordinates) ==
    LET n == Len(coordinates)
        dx(i) == Lon(coordinates[i]) - Lon(coordinates[1])
        dy(i) == Lat(coordinates[i]) - Lat(coordinates[1])
        nxt(i) == (i % n) + 1
    IN  SumSeq([i \in 1..n |-> dx(i) * dy(nxt(i)) - dx(nxt(i)) * dy(i)])

\* calculate_area_haversine, in 1e-2 m2
calculate_area_haversine(coordinates) ==
    IF Len(coordinates) < 3 THEN 0
    ELSE LET center_lat == get_center_coordinates(coordinates)[1]
             cos_lat == CosE3(center_lat)
             \* x scale cos_lat * METERS_PER_DEGREE_LON, in 1e-4 m per u
             kx == RoundDiv(cos_lat * METERS_PER_DEGREE_LON_AT_EQUATOR, 100)
             area == ShoelaceSum(coordinates) * kx * METERS_PER_DEGREE_LAT
         \* area is in 1e-4 m * cm = 1e-6 m2
         IN  RoundDiv(Abs(area), 2 * 10000)

\* calculate_perimeter, in mm
calculate_perimeter(coordinates) ==
    IF Len(coordinates) < 2 THEN 0
    ELSE LET n == Len(coordinates)
             nxt(i) == (i % n) + 1
         IN  SumSeq([i \in 1..n |->
                 haversine_distance(Lat(coordinates[i]), Lon(coordinates[i]),
                                    Lat(coordinates[nxt(i)]),
                                    Lon(coordinates[nxt(i)]))])

\* calculate_slope_from_area_and_perimeter, in 1e-3 degree
calculate_slope_from_area_and_perimeter(area_c, perimeter_mm) ==
    IF area_c <= 0 THEN 0
    ELSE LET \* 4 * sqrt(area) in mm: area_c * 1e4 is the area in mm2
             ideal_perimeter == 4 * ISqrt(area_c * 10000)
             shape_factor == IF ideal_perimeter > 0
                             THEN (perimeter_mm * 1000) \div ideal_perimeter
                             ELSE 1000
             estimated_slope == Min(5 * (shape_factor - 1000), 15000)
         IN  Max(0, estimated_slope)

(***************************************************************************)
(* PECV MADRID 2025 - FACTOR VERDE  (src/api/analyze.py)                   *)
(* Coefficients in 1e-2; the factor verde in 1e-3.                         *)
(***************************************************************************)
COEF_TIPO_CUBIERTA ==
    [extensiva |-> 75, intensiva |-> 100, semi_intensiva |-> 85]

COEF_ORIENTACION ==
    [sur |-> 100, sureste |-> 95, suroeste |-> 95, este |-> 85, oeste |-> 85,
     norte |-> 70, noreste |-> 75, noroeste |-> 75]

COEF_INFRAESTRUCTURA ==
    [cubierta_vegetal_extensiva |-> 60, cubierta_vegetal_intensiva |-> 100,
     jardin_vertical |-> 40, arbolado_aislado |-> 80,
     vegetacion_tapizante |-> 50, arbustos |-> 70, pradera |-> 50]

\* areas in 1e-2 m2, slope in 1e-3 degree, factor verde in 1e-3, percent
REQUISITOS_MINIMOS ==
    [superficie_min_m2 |-> 5000, inclinacion_max_grados |-> 30000,
     factor_verde_min_extensiva |-> 600, factor_verde_min_intensiva |-> 800,
     especies_nativas_pct_min |-> 60]

\* dict.get(key, default)
Get(table, key, default) ==
    IF key \in DOMAIN table THEN table[key] ELSE default

\* the formula applied to the part of the area that is not green
calculate_factor_verde_bare(area_total_m2, area_verde_m2, tipo_cubierta, orientacion, tipo_infraestructura) ==
    LET ct == Get(COEF_TIPO_CUBIERTA, tipo_cubierta, 75)
        co == Get(COEF_ORIENTACION, orientacion, 85)
        ci == Get(COEF_INFRAESTRUCTURA, tipo_infraestructura, 60)
        prod == (ct \div 5) * (co \div 5) * (ci \div 5)
        num == prod * Max(0, area_total_m2 - area_verde_m2)
        den == 8 * area_total_m2
        has == area_total_m2 > 0
        ge(min) == IF has THEN num >= min * den ELSE 0 >= min
        cumple_intensiva ==
            ge(REQUISITOS_MINIMOS.factor_verde_min_intensiva)
    IN  [factor_verde |-> IF has THEN RoundDiv(num, den) ELSE 0,
         cumple_extensiva |->
            ge(REQUISITOS_MINIMOS.factor_verde_min_extensiva),
         cumple_intensiva |-> cumple_intensiva,
         coeficientes |-> [ct |-> ct, co |-> co, ci |-> ci],
         tipo_cubierta_recomendado |->
            IF cumple_intensiva THEN "intensiva" ELSE "extensiva"]

\* calculate_factor_verde.  Every coefficient is a multiple of 0.05, so
\* ct*co*ci is taken in units of 0.05^3 = 1.25e-4 and the quotient
\* (ct*co*ci*area_verde)/area_total is prod*area_verde / (8*area_total) in 1e-3.
calculate_factor_verde(area_total_m2, area_verde_m2, tipo_cubierta, orientacion, tipo_infraestructura) ==
    LET ct == Get(COEF_TIPO_CUBIERTA, tipo_cubierta, 75)
        co == Get(COEF_ORIENTACION, orientacion, 85)
        ci == Get(COEF_INFRAESTRUCTURA, tipo_infraestructura, 60)
        prod == (ct \div 5) * (co \div 5) * (ci \div 5)
        num == prod * area_verde_m2
        den == 8 * area_total_m2
        has == area_total_m2 > 0
        \* factor_verde >= minimum, on the unrounded quotient
        ge(min) == IF has THEN num >= min * den ELSE 0 >= min
        cumple_intensiva ==
            ge(REQUISITOS_MINIMOS.factor_verde_min_intensiva)
    IN  [factor_verde |-> IF has THEN RoundDiv(num, den) ELSE 0,
         cumple_extensiva |->
            ge(REQUISITOS_MINIMOS.factor_verde_min_extensiva),
         cumple_intensiva |-> cumple_intensiva,
         coeficientes |-> [ct |-> ct, co |-> co, ci |-> ci],
         tipo_cubierta_recomendado |->
            IF cumple_intensiva THEN "intensiva" ELSE "extensiva"]

\* validate_requirements
validate_requirements(area_m2, inclinacion_grados, factor_verde, especies_nativas_pct, tipo_cubierta) ==
    LET fv_min == IF tipo_cubierta = "intensiva"
                  THEN REQUISITOS_MINIMOS.factor_verde_min_intensiva
                  ELSE REQUISITOS_MINIMOS.factor_verde_min_extensiva
        c1 == area_m2 >= REQUISITOS_MINIMOS.superficie_min_m2
        c2 == inclinacion_grados <= REQUISITOS_MINIMOS.inclinacion_max_grados
        c3 == factor_verde >= fv_min
        c4 == especies_nativas_pct
                 >= REQUISITOS_MINIMOS.especies_nativas_pct_min
    IN  [superficie_min_50m2 |-> c1, inclinacion_max_30 |-> c2,
         factor_verde_minimo |-> c3, especies_nativas_60_pct |-> c4,
         cumple_todos |-> c1 /\ c2 /\ c3 /\ c4]

\* get_orientation_from_solar_hours
get_orientation_from_solar_hours(horas_sol_anuales) ==
    IF horas_sol_anuales >= 2400 THEN "sur"
    ELSE IF horas_sol_anuales >= 2200 THEN "sureste"
    ELSE IF horas_sol_anuales >= 2000 THEN "este"
    ELSE IF horas_sol_anuales >= 1800 THEN "oeste"
    ELSE "norte"

(***************************************************************************)
(* NATIVE SPECIES CATALOG  (src/api/analyze.py ESPECIES)                   *)
(* coste_unidad_eur in cents.                                              *)
(***************************************************************************)
Esp(nombre, sol, agua, densidad, coste) ==
    [nombre_comun |-> nombre, nativa_iberia |-> TRUE, requisitos_sol |-> sol,
     requisitos_agua |-> agua, densidad_m2 |-> densidad,
     coste_unidad_eur |-> coste]

ESPECIES ==
    [aromaticas |-> << Esp("Lavanda", "pleno", "bajo", 9, 350),
                       Esp("Romero", "pleno", "bajo", 4, 350),
                       Esp("Tomillo", "pleno", "bajo", 16, 350),
                       Esp("Santolina", "pleno", "bajo", 6, 350) >>,
     suculentas |-> << Esp("Sedum de roca", "pleno", "muy_bajo", 25, 250),
                       Esp("Sedum blanco", "pleno", "muy_bajo", 25, 250) >>,
     sombra     |-> << Esp("Helecho comun", "sombra", "medio", 6, 400),
                       Esp("Hiedra", "media_sombra", "bajo", 4, 300),
                       Esp("Vincapervinca", "media_sombra", "bajo", 9, 300) >>]

\* s[:n]
Take(s, n) == SubSeq(s, 1, Min(n, Len(s)))

\* get_species_by_exposure; viabilidad in 1e-2
get_species_by_exposure(clasificacion_solar, max_especies) ==
    LET especies_sol ==
            IF clasificacion_solar = "SOL_DIRECTO"
            THEN Take(ESPECIES.aromaticas, 3) \o Take(ESPECIES.suculentas, 1)
            ELSE IF clasificacion_solar = "SOMBRA" THEN ESPECIES.sombra
            ELSE Take(ESPECIES.aromaticas, 2) \o Take(ESPECIES.sombra, 2)
        viabilidades ==
            IF clasificacion_solar = "SOL_DIRECTO" THEN <<95, 92, 90, 88>>
            ELSE IF clasificacion_solar = "SOMBRA" THEN <<85, 82, 80>>
            ELSE <<88, 85, 83, 80>>
        chosen == Take(especies_sol, max_especies)
    IN  [i \in 1..Len(chosen) |->
            [especie |-> chosen[i],
             viabilidad |-> IF i <= Len(viabilidades)
                            THEN viabilidades[i] ELSE 75]]

\* calculate_plant_quantities; coste_total_eur in cents
calculate_plant_quantities(area_util_m2, especies) ==
    [i \in 1..Len(especies) |->
        LET cantidad ==
                (area_util_m2 * especies[i].especie.densidad_m2) \div 100
        IN  [especie |-> especies[i].especie,
             viabilidad |-> especies[i].viabilidad,
             cantidad_estimada |-> cantidad,
             coste_total_eur |->
                 cantidad * especies[i].especie.coste_unidad_eur]]

\* get_native_species_percentage, in percent
get_native_species_percentage(especies) ==
    IF Len(especies) = 0 THEN 0
    ELSE LET nativas == Cardinality({i \in 1..Len(especies) :
                                        especies[i].especie.nativa_iberia})
         IN  RoundDiv(nativas * 100, Len(especies))

(***************************************************************************)
(* MADRID 2024 MARKET COSTS  (src/api/analyze.py, same text in             *)
(* src/api/standards/costs_2024.py).  Euro per m2 and euro per unit; an    *)
(* area in 1e-2 m2 times euro/m2 is an amount in cents.                    *)
(***************************************************************************)
COSTES_MATERIALES ==
    [sustrato_ligero_m2 |-> 45, drenaje_m2 |-> 25,
     membrana_impermeable_m2 |-> 15, lamina_antiraices_m2 |-> 8,
     geotextil_m2 |-> 5, grava_drenaje_m2 |-> 12, instalacion_m2 |-> 20,
     mantenimiento_anual_m2 |-> 8]

COSTES_RIEGO ==
    [riego_goteo_automatizado_m2 |-> 15, controlador_riego_unidad |-> 250,
     sensores_humedad_unidad |-> 80]

\* round(x, 2) of an amount x in 1e-4 euro, in cents
RoundCents(x) == RoundDiv(x, 100)

\* calculate_budget; area_m2 in 1e-4 m2 and coste_total_eur of the species in
\* cents; the amounts before rounding in 1e-4 euro, the amounts returned in
\* cents, coste_por_m2_eur in cents per m2
calculate_budget(area_m2, especies_list, incluir_riego) ==
    LET sustrato == area_m2 * COSTES_MATERIALES.sustrato_ligero_m2
        drenaje == area_m2 * COSTES_MATERIALES.drenaje_m2
        membrana == area_m2 * COSTES_MATERIALES.membrana_impermeable_m2
        lamina_antiraices == area_m2 * COSTES_MATERIALES.lamina_antiraices_m2
        geotextil == area_m2 * COSTES_MATERIALES.geotextil_m2
        coste_plantas ==
            100 * SumSeq([i \in 1..Len(especies_list) |->
                             especies_list[i].coste_total_eur])
        instalacion == area_m2 * COSTES_MATERIALES.instalacion_m2
        riego ==
            IF incluir_riego
            THEN area_m2 * COSTES_RIEGO.riego_goteo_automatizado_m2
                 + 10000 * COSTES_RIEGO.controlador_riego_unidad
                 + 10000 * COSTES_RIEGO.sensores_humedad_unidad
                         * Max(1, area_m2 \div 1000000)
            ELSE 0
        coste_total_inicial ==
            sustrato + drenaje + membrana + lamina_antiraices
            + geotextil + coste_plantas + instalacion + riego
        mantenimiento_anual ==
            area_m2 * COSTES_MATERIALES.mantenimiento_anual_m2
        \* coste_total_inicial / area_m2 in cents per m2, the euros and the
        \* cents of the quotient one after the other
        coste_por_m2 ==
            IF area_m2 > 0
            THEN (coste_total_inicial \div area_m2) * 100
                 + RoundDiv((coste_total_inicial % area_m2) * 100, area_m2)
            ELSE 0
    IN  [coste_total_inicial_eur |-> RoundCents(coste_total_inicial),
         desglose |->
            [sustrato_eur |-> RoundCents(sustrato),
             drenaje_eur |-> RoundCents(drenaje),
             membrana_impermeable_eur |-> RoundCents(membrana),
             lamina_antiraices_eur |-> RoundCents(lamina_antiraices),
             geotextil_eur |-> RoundCents(geotextil),
             plantas_eur |-> RoundCents(coste_plantas),
             instalacion_eur |-> RoundCents(instalacion),
             riego_eur |-> IF incluir_riego THEN RoundCents(riego) ELSE 0],
         mantenimiento_anual_eur |-> RoundCents(mantenimiento_anual),
         coste_por_m2_eur |-> coste_por_m2,
         vida_util_anos |-> 25]

(***************************************************************************)
(* IDAE ENERGY SAVINGS and MITECO 2024 BENEFITS  (src/api/analyze.py)      *)
(***************************************************************************)
\* kWh per m2 and year
CONSUMO_BASE ==
    [calefaccion_kwh_m2_ano |-> 50, refrigeracion_kwh_m2_ano |-> 30]

\* euro cent per kWh
PRECIO_ENERGIA == [electricidad_eur_kwh |-> 25]

\* reductions in percent
AHORRO_PORCENTAJE ==
    [extensiva |-> [refrigeracion |-> 35, calefaccion |-> 15],
     intensiva |-> [refrigeracion |-> 50, calefaccion |-> 30]]

\* calculate_energy_savings; kWh in 1e-2, euro in cents
calculate_energy_savings(area_m2, tipo_cubierta) ==
    LET reducciones == Get(AHORRO_PORCENTAJE, tipo_cubierta,
                           AHORRO_PORCENTAJE.extensiva)
        \* 1e-2 kWh per m2
        ahorro_refrigeracion_kwh ==
            CONSUMO_BASE.refrigeracion_kwh_m2_ano * reducciones.refrigeracion
        ahorro_calefaccion_kwh ==
            CONSUMO_BASE.calefaccion_kwh_m2_ano * reducciones.calefaccion
        ahorro_total_kwh_m2 ==
            ahorro_refrigeracion_kwh + ahorro_calefaccion_kwh
        \* area (1e-2 m2) * 1e-2 kWh/m2 = 1e-4 kWh
        ahorro_anual_kwh == area_m2 * ahorro_total_kwh_m2
    IN  [ahorro_energia_kwh_anual |-> RoundDiv(ahorro_anual_kwh, 100),
         ahorro_energia_eur_anual |->
            RoundDiv(ahorro_anual_kwh * PRECIO_ENERGIA.electricidad_eur_kwh,
                     10000)]

CO2_CAPTURA_KG_M2_ANO == 5

\* mm per year, percent
AGUA_RETENCION ==
    [precipitacion_anual_madrid_mm |-> 400, porcentaje_retencion |-> 60]

\* calculate_ecosystem_benefits for the extensive factors (1.0) and the
\* intensive ones (1.3, 1.2); CO2 in 1e-1 kg, water in litres, value in cents
calculate_ecosystem_benefits(area_m2, tipo_cubierta) ==
    LET co2_factor == IF tipo_cubierta = "intensiva" THEN 13 ELSE 10
        water_factor == IF tipo_cubierta = "intensiva" THEN 12 ELSE 10
        \* 1e-3 kg
        co2_capturado == area_m2 * CO2_CAPTURA_KG_M2_ANO * co2_factor
        \* 1e-1 mm = 1e-1 litre per m2
        agua_retenida_mm ==
            (AGUA_RETENCION.precipitacion_anual_madrid_mm
               * AGUA_RETENCION.porcentaje_retencion * water_factor) \div 100
        \* 1e-2 litre
        agua_retenida_litros == (area_m2 * agua_retenida_mm) \div 10
    IN  [co2_capturado_kg_anual |-> RoundDiv(co2_capturado, 100),
         agua_retenida_litros_anual |-> RoundDiv(agua_retenida_litros, 100),
         \* litres * 0.002 euro: 1e-2 litre * 0.2 cent = 1e-2 cent * 0.2
         valor_retencion_agua_eur_anual |->
            RoundDiv(agua_retenida_litros * 2, 1000)]

(***************************************************************************)
(* COMPUTER VISION SIMULATION  (src/api/analyze.py)                        *)
(* A draw of rng.uniform(lo, hi) is a value in 1e-3 between the ends.      *)
(***************************************************************************)
\* values a draw takes in the model: the two ends of the interval
Uniform(lo, hi) == {lo, hi}

SegmentDraws ==
    [asfalto : Uniform(250, 350), grava : Uniform(450, 550),
     vegetacion : Uniform(50, 150), obstaculos : Uniform(80, 120)]

ShadowDraws == Uniform(750, 950) \cup {850}

\* segment_surfaces computing area_util_pct without its test of area_m2 > 0
segment_surfaces_unguarded(area_m2, d) ==
    LET total_pct == d.asfalto + d.grava + d.vegetacion + d.obstaculos
        part(x) == RoundDiv(area_m2 * x, total_pct * 100)
    IN  [asfalto_m2 |-> part(d.asfalto),
         grava_m2 |-> part(d.grava),
         vegetacion_previa_m2 |-> part(d.vegetacion),
         obstaculos_m2 |-> part(d.obstaculos),
         area_util_m2 |->
            RoundDiv(area_m2 * (total_pct - d.obstaculos), total_pct * 100),
         area_util_pct |->
            IF area_m2 = 0 THEN ZeroDivisionError
            ELSE RoundDiv((total_pct - d.obstaculos) * 1000, total_pct)]

\* segment_surfaces with the four draws of its generator; area_m2 in 1e-4 m2,
\* the areas returned, rounded to two decimals, in 1e-2 m2, area_util_pct in
\* 1e-1 percent
segment_surfaces(area_m2, d) ==
    LET total_pct == d.asfalto + d.grava + d.vegetacion + d.obstaculos
        part(x) == RoundDiv(area_m2 * x, total_pct * 100)
        \* area_m2 - area_m2 * obstaculos_pct, unrounded, times total_pct
        area_util_num == area_m2 * (total_pct - d.obstaculos)
        \* (area_util_m2 / area_m2) * 100: raises on a zero area, and is
        \* (total_pct - obstaculos) / total_pct otherwise
        util_pct == IF area_m2 = 0 THEN ZeroDivisionError
                    ELSE RoundDiv((total_pct - d.obstaculos) * 1000, total_pct)
    IN  [asfalto_m2 |-> part(d.asfalto),
         grava_m2 |-> part(d.grava),
         vegetacion_previa_m2 |-> part(d.vegetacion),
         obstaculos_m2 |-> part(d.obstaculos),
         area_util_m2 |-> RoundDiv(area_util_num, total_pct * 100),
         area_util_pct |-> IF area_m2 > 0 THEN util_pct ELSE 0]

\* analyze_solar_exposure with the draw of its generator
analyze_solar_exposure(lat, lon, area_m2, shadow_factor) ==
    LET base_hours == IF lat >= 41500000 THEN 2200
                      ELSE IF lat >= 39500000 THEN 2400
                      ELSE 2600
        horas_sol_anuales == (base_hours * shadow_factor) \div 1000
    IN  [horas_sol_anuales |-> horas_sol_anuales,
         clasificacion |-> IF horas_sol_anuales >= 2200 THEN "SOL_DIRECTO"
                           ELSE IF horas_sol_anuales >= 1800 THEN "MIXTA"
                           ELSE "SOMBRA",
         factor_sombra |-> RoundDiv(shadow_factor, 10)]

\* calculate_ndvi, in 1e-2
calculate_ndvi(area_m2, vegetacion_previa_m2) ==
    IF area_m2 <= 0 THEN 0
    ELSE Max(-100, Min(100,
             RoundDiv(10 * area_m2 + 30 * vegetacion_previa_m2, area_m2)))

(***************************************************************************)
(* SUBSIDY ZONES - MADRID  (src/api/utils/subsidy_zones.py, same text in   *)
(* src/api/analyze.py).  Bounds in 1e-6 degree, in table order.            *)
(***************************************************************************)
ZONAS_SUBVENCION ==
    << [id |-> "centro_historico", nombre |-> "Centro Historico Madrid",
        porcentaje |-> 80,
        programa |-> "PECV Madrid 2025 + Fondos Next Generation",
        bounds |-> [min_lat |-> 40405000, max_lat |-> 40430000,
                    min_lon |-> -3720000, max_lon |-> -3690000]],
       [id |-> "ensanche", nombre |-> "Ensanche y Barrios Centrales",
        porcentaje |-> 60, programa |-> "PECV Madrid 2025",
        bounds |-> [min_lat |-> 40395000, max_lat |-> 40440000,
                    min_lon |-> -3730000, max_lon |-> -3680000]],
       [id |-> "periferia", nombre |-> "Barrios Perifericos",
        porcentaje |-> 50, programa |-> "Comunidad de Madrid",
        bounds |-> [min_lat |-> 40350000, max_lat |-> 40480000,
                    min_lon |-> -3800000, max_lon |-> -3600000]],
       [id |-> "area_metropolitana", nombre |-> "Area Metropolitana",
        porcentaje |-> 40, programa |-> "Comunidad de Madrid",
        bounds |-> [min_lat |-> 40300000, max_lat |-> 40550000,
                    min_lon |-> -3900000, max_lon |-> -3500000]] >>

\* point_in_bounds
point_in_bounds(lat, lon, bounds) ==
    /\ bounds.min_lat <= lat /\ lat <= bounds.max_lat
    /\ bounds.min_lon <= lon /\ lon <= bounds.max_lon

\* a lookup that keeps searching after a match: the last zone of the table
\* that contains the point, 0 for None
FindZonaLast(lat, lon, i) ==
    LET hits == { j \in i..Len(ZONAS_SUBVENCION) :
                    point_in_bounds(lat, lon, ZONAS_SUBVENCION[j].bounds) }
    IN  IF hits = {} THEN 0 ELSE CHOOSE j \in hits : \A k \in hits : k <= j

\* the for ... break loop of check_subsidy_eligibility from table index i:
\* index of the zone found, 0 for None
RECURSIVE FindZona(_, _, _)
FindZona(lat, lon, i) ==
    IF i > Len(ZONAS_SUBVENCION) THEN 0
    ELSE IF point_in_bounds(lat, lon, ZONAS_SUBVENCION[i].bounds) THEN i
    ELSE FindZona(lat, lon, i + 1)

\* check_subsidy_eligibility
check_subsidy_eligibility(lat, lon) ==
    LET zona_encontrada == FindZona(lat, lon, 1)
    IN  IF zona_encontrada # 0
        THEN LET zona == ZONAS_SUBVENCION[zona_encontrada]
             IN  [elegible |-> TRUE, porcentaje |-> zona.porcentaje,
                  zona |-> zona.nombre, programa |-> zona.programa]
        ELSE [elegible |-> FALSE, porcentaje |-> 0,
              zona |-> "Fuera de zonas prioritarias",
              programa |-> "No aplica"]

\* the programmes of the zones that contain the point, in table order
ProgramsOfPoint(lat, lon) ==
    LET hits == SelectSeq(ZONAS_SUBVENCION,
                    LAMBDA z : point_in_bounds(lat, lon, z.bounds))
    IN  [i \in 1..Len(hits) |->
            [zona |-> hits[i].nombre, porcentaje |-> hits[i].porcentaje,
             programa |-> hits[i].programa]]

\* the programmes of the point sorted by percentage, lowest first
get_all_available_programs_ascending(lat, lon) ==
    LET programs == ProgramsOfPoint(lat, lon)
        n == Len(programs)
        Before(j, i) ==
            \/ programs[j].porcentaje < programs[i].porcentaje
            \/ programs[j].porcentaje = programs[i].porcentaje /\ j < i
    IN  [r \in 1..n |->
            programs[CHOOSE i \in 1..n :
                Cardinality({ j \in 1..n : Before(j, i) }) = r - 1]]

\* get_all_available_programs: programs.sort(key = porcentaje, reverse =
\* True) is stable, an entry comes after those with a higher percentage
\* and after the earlier ones with the same percentage
get_all_available_programs(lat, lon) ==
    LET programs == ProgramsOfPoint(lat, lon)
        n == Len(programs)
        Before(j, i) ==
            \/ programs[j].porcentaje > programs[i].porcentaje
            \/ programs[j].porcentaje = programs[i].porcentaje /\ j < i
    IN  [r \in 1..n |->
            programs[CHOOSE i \in 1..n :
                Cardinality({ j \in 1..n : Before(j, i) }) = r - 1]]

\* tope_maximo = None
None == -1

\* Python truth value of an optional number: None and 0 are false
Truthy(x) == x # None /\ x # 0

\* calculate_subsidy_amount taking the net investment before the cap is
\* applied
calculate_subsidy_amount_net_uncapped(coste_total, porcentaje, tope_maximo) ==
    LET monto == coste_total * porcentaje
        aplicado_tope == Truthy(tope_maximo) /\ monto > tope_maximo * 100
        monto_subvencion == IF aplicado_tope THEN tope_maximo * 100 ELSE monto
    IN  [coste_total_eur |-> RoundDiv(coste_total, 10),
         porcentaje_subvencion |-> porcentaje,
         monto_subvencion_eur |-> RoundDiv(monto_subvencion, 1000),
         inversion_neta_eur |-> RoundDiv(coste_total * 100 - monto, 1000),
         aplicado_tope |-> aplicado_tope,
         tope_maximo_eur |-> tope_maximo]

\* calculate_subsidy_amount.  coste_total and tope_maximo in 1e-3 euro
\* (tope_maximo >= 0, or None); the amounts before rounding in 1e-5 euro;
\* the returned amounts in cents.
calculate_subsidy_amount(coste_total, porcentaje, tope_maximo) ==
    LET monto == coste_total * porcentaje
        aplicado_tope == Truthy(tope_maximo) /\ monto > tope_maximo * 100
        monto_subvencion == IF aplicado_tope THEN tope_maximo * 100 ELSE monto
        inversion_neta == coste_total * 100 - monto_subvencion
    IN  [coste_total_eur |-> RoundDiv(coste_total, 10),
         porcentaje_subvencion |-> porcentaje,
         monto_subvencion_eur |-> RoundDiv(monto_subvencion, 1000),
         inversion_neta_eur |-> RoundDiv(inversion_neta, 1000),
         aplicado_tope |-> aplicado_tope,
         tope_maximo_eur |-> tope_maximo]

(***************************************************************************)
(* SPECIES RECOMMENDER  (src/api/utils/species_recommender.py)             *)
(* Depths in cm, loads in kg/m2, CO2 in 1e-1 kg/m2, retention in percent;  *)
(* a key a species does not carry is absent from its record.               *)
(***************************************************************************)
ESPECIES_DATABASE ==
    << [nombre_comun |-> "Sedum blanco", nativa_espana |-> TRUE,
        nivel_economia |-> "muy_alta", mantenimiento_anual |-> "nulo",
        riego_necesario |-> "nulo", requerimientos_sol |-> "pleno_sol",
        comestible |-> FALSE, aromatica |-> FALSE, melifera |-> TRUE,
        contextos_validos |-> {"tejado_extensivo", "tejado_intensivo",
                               "jardin_vertical", "suelo"},
        restricciones |-> [profundidad_minima_cm |-> 3, peso_max_kg_m2 |-> 5],
        beneficios_ambientales |-> [co2_kg_m2_anual |-> 5,
            retencion_agua_porcentaje |-> 40, biodiversidad_score |-> 7]],
       [nombre_comun |-> "Tomillo", nativa_espana |-> TRUE,
        nivel_economia |-> "muy_alta", mantenimiento_anual |-> "muy_bajo",
        riego_necesario |-> "minimo", requerimientos_sol |-> "pleno_sol",
        comestible |-> TRUE, aromatica |-> TRUE, melifera |-> TRUE,
        contextos_validos |-> {"tejado_extensivo", "tejado_intensivo",
                               "suelo"},
        restricciones |-> [profundidad_minima_cm |-> 10,
                           peso_max_kg_m2 |-> 12],
        beneficios_ambientales |-> [co2_kg_m2_anual |-> 8,
            retencion_agua_porcentaje |-> 30, biodiversidad_score |-> 9]],
       [nombre_comun |-> "Siempreviva", nativa_espana |-> TRUE,
        nivel_economia |-> "muy_alta", mantenimiento_anual |-> "nulo",
        riego_necesario |-> "nulo", requerimientos_sol |-> "pleno_sol",
        comestible |-> FALSE, aromatica |-> FALSE, melifera |-> FALSE,
        contextos_validos |-> {"tejado_extensivo", "tejado_intensivo",
                               "jardin_vertical"},
        restricciones |-> [profundidad_minima_cm |-> 5, peso_max_kg_m2 |-> 8],
        beneficios_ambientales |-> [co2_kg_m2_anual |-> 4,
            retencion_agua_porcentaje |-> 35, biodiversidad_score |-> 6]],
       [nombre_comun |-> "Romero", nativa_espana |-> TRUE,
        nivel_economia |-> "muy_alta", mantenimiento_anual |-> "muy_bajo",
        riego_necesario |-> "nulo", requerimientos_sol |-> "pleno_sol",
        comestible |-> TRUE, aromatica |-> TRUE, melifera |-> TRUE,
        contextos_validos |-> {"tejado_intensivo", "suelo"},
        restricciones |-> [profundidad_minima_cm |-> 30,
                           peso_max_kg_m2 |-> 35],
        beneficios_ambientales |-> [co2_kg_m2_anual |-> 25,
            retencion_agua_porcentaje |-> 25, biodiversidad_score |-> 9]],
       [nombre_comun |-> "Lavanda", nativa_espana |-> TRUE,
        nivel_economia |-> "muy_alta", mantenimiento_anual |-> "muy_bajo",
        riego_necesario |-> "bajo", requerimientos_sol |-> "pleno_sol",
        comestible |-> FALSE, aromatica |-> TRUE, melifera |-> TRUE,
        contextos_validos |-> {"tejado_intensivo", "suelo"},
        restricciones |-> [profundidad_minima_cm |-> 20,
                           peso_max_kg_m2 |-> 25],
        beneficios_ambientales |-> [co2_kg_m2_anual |-> 12,
            retencion_agua_porcentaje |-> 28, biodiversidad_score |-> 8]],
       [nombre_comun |-> "Hiedra", nativa_espana |-> TRUE,
        nivel_economia |-> "alta", mantenimiento_anual |-> "bajo",
        riego_necesario |-> "medio", requerimientos_sol |-> "media_sombra",
        comestible |-> FALSE, aromatica |-> FALSE, melifera |-> FALSE,
        contextos_validos |-> {"jardin_vertical", "suelo"},
        restricciones |-> [profundidad_minima_cm |-> 20,
                           peso_max_kg_m2 |-> 22],
        beneficios_ambientales |-> [co2_kg_m2_anual |-> 18,
            retencion_agua_porcentaje |-> 35, biodiversidad_score |-> 6]],
       [nombre_comun |-> "Encina", nativa_espana |-> TRUE,
        nivel_economia |-> "alta", mantenimiento_anual |-> "nulo",
        riego_necesario |-> "solo_establecimiento",
        requerimientos_sol |-> "pleno_sol",
        comestible |-> FALSE, aromatica |-> FALSE, melifera |-> TRUE,
        contextos_validos |-> {"suelo"},
        restricciones |-> [profundidad_minima_cm |-> 200,
                           peso_max_kg_m2 |-> 500],
        beneficios_ambientales |-> [co2_kg_m2_anual |-> 8000,
            biodiversidad_score |-> 10]],
       [nombre_comun |-> "Santolina", nativa_espana |-> TRUE,
        nivel_economia |-> "muy_alta", mantenimiento_anual |-> "muy_bajo",
        riego_necesario |-> "bajo", requerimientos_sol |-> "pleno_sol",
        comestible |-> FALSE, aromatica |-> TRUE, melifera |-> TRUE,
        contextos_validos |-> {"tejado_extensivo", "tejado_intensivo",
                               "suelo"},
        restricciones |-> [profundidad_minima_cm |-> 15,
                           peso_max_kg_m2 |-> 18],
        beneficios_ambientales |-> [co2_kg_m2_anual |-> 10,
            retencion_agua_porcentaje |-> 32, biodiversidad_score |-> 7]],
       [nombre_comun |-> "Festuca glauca", nativa_espana |-> TRUE,
        nivel_economia |-> "muy_alta", mantenimiento_anual |-> "muy_bajo",
        riego_necesario |-> "bajo", requerimientos_sol |-> "pleno_sol",
        comestible |-> FALSE, aromatica |-> FALSE, melifera |-> FALSE,
        contextos_validos |-> {"tejado_extensivo", "tejado_intensivo",
                               "suelo"},
        restricciones |-> [profundidad_minima_cm |-> 10,
                           peso_max_kg_m2 |-> 15],
        beneficios_ambientales |-> [co2_kg_m2_anual |-> 7,
            retencion_agua_porcentaje |-> 25, biodiversidad_score |-> 5]] >>

\* weights in 1e-2
PRIORITY_WEIGHTS ==
    [economia |-> [nivel_economia |-> 40, mantenimiento |-> 30, riego |-> 20,
                   biodiversidad |-> 5, beneficios |-> 5],
     biodiversidad |-> [biodiversidad |-> 40, melifera |-> 25, nativa |-> 20,
                        beneficios |-> 10, economia |-> 5],
     comestible |-> [comestible |-> 40, aromatica |-> 25, nativa |-> 15,
                     mantenimiento |-> 10, economia |-> 10],
     estetica |-> [biodiversidad |-> 30, aromatica |-> 25, melifera |-> 20,
                   beneficios |-> 15, economia |-> 10]]

\* sub-scores in 1e-2
normalize_economy_level(nivel) ==
    Get([muy_alta |-> 100, alta |-> 75, media |-> 50, baja |-> 25], nivel, 50)

normalize_maintenance_level(nivel) ==
    Get([nulo |-> 100, muy_bajo |-> 90, bajo |-> 70, medio |-> 50,
         alto |-> 30], nivel, 50)

normalize_irrigation_level(nivel) ==
    Get([nulo |-> 100, solo_establecimiento |-> 95, minimo |-> 85,
         bajo |-> 70, medio |-> 50, alto |-> 30], nivel, 50)

\* the sub-scores with the CO2 captured not limited to 5 kg
SubScoresUncapped(especie) ==
    LET b == especie.beneficios_ambientales
        co2_score == Get(b, "co2_kg_m2_anual", 0) * 2
        retencion_score == Get(b, "retencion_agua_porcentaje", 0)
    IN  [economia |-> 10 * normalize_economy_level(especie.nivel_economia),
         mantenimiento |->
            10 * normalize_maintenance_level(especie.mantenimiento_anual),
         riego |-> 10 * normalize_irrigation_level(especie.riego_necesario),
         biodiversidad |-> 100 * Get(b, "biodiversidad_score", 5),
         melifera |-> IF especie.melifera THEN 1000 ELSE 300,
         nativa |-> IF especie.nativa_espana THEN 1000 ELSE 500,
         comestible |-> IF especie.comestible THEN 1000 ELSE 0,
         aromatica |-> IF especie.aromatica THEN 1000 ELSE 300,
         beneficios |-> 5 * (co2_score + retencion_score)]

\* the sub-scores calculate_suitability_score weighs, in 1e-3
SubScores(especie) ==
    LET b == especie.beneficios_ambientales
        co2_score == Min(Get(b, "co2_kg_m2_anual", 0) * 2, 100)
        retencion_score == Get(b, "retencion_agua_porcentaje", 0)
    IN  [economia |-> 10 * normalize_economy_level(especie.nivel_economia),
         mantenimiento |->
            10 * normalize_maintenance_level(especie.mantenimiento_anual),
         riego |-> 10 * normalize_irrigation_level(especie.riego_necesario),
         biodiversidad |-> 100 * Get(b, "biodiversidad_score", 5),
         melifera |-> IF especie.melifera THEN 1000 ELSE 300,
         nativa |-> IF especie.nativa_espana THEN 1000 ELSE 500,
         comestible |-> IF especie.comestible THEN 1000 ELSE 0,
         aromatica |-> IF especie.aromatica THEN 1000 ELSE 300,
         beneficios |-> 5 * (co2_score + retencion_score)]

\* calculate_suitability_score, in 1e-2 point
calculate_suitability_score(especie, caracteristicas, prioridad) ==
    LET weights == Get(PRIORITY_WEIGHTS, prioridad, PRIORITY_WEIGHTS.economia)
        sub == SubScores(especie)
        w(k) == Get(weights, k, 0)
        term(k) == IF k \in DOMAIN weights THEN sub[k] * weights[k] ELSE 0
        economy == IF "economia" \in DOMAIN weights
                      \/ "nivel_economia" \in DOMAIN weights
                   THEN sub.economia * Get(weights, "nivel_economia",
                                           w("economia"))
                   ELSE 0
        \* score, in 1e-5
        score == economy + term("mantenimiento") + term("riego")
                 + term("biodiversidad") + term("melifera") + term("nativa")
                 + term("comestible") + term("aromatica") + term("beneficios")
    IN  RoundDiv(score, 10)

\* caracteristicas.get(key, default): an absent key is None in the model
GetOpt(caracteristicas, key, default) ==
    IF caracteristicas[key] = None THEN default ELSE caracteristicas[key]

\* the context key recommend_species_by_context resolves
ContextKey(tipo_especializacion, caracteristicas) ==
    IF tipo_especializacion = "tejado"
    THEN LET profundidad ==
                 GetOpt(caracteristicas, "profundidad_sustrato_cm", 15)
         IN  IF profundidad >= 30 THEN "tejado_intensivo"
             ELSE IF profundidad >= 15 THEN "semi_intensivo"
             ELSE "tejado_extensivo"
    ELSE Get([tejado |-> "tejado_extensivo",
              jardin_vertical |-> "jardin_vertical",
              solar_vacio |-> "suelo", zona_abandonada |-> "suelo",
              parque_degradado |-> "suelo"], tipo_especializacion, "suelo")

\* the loop body without Filter 1
PassesAnyContext(especie, context_key) == TRUE

\* Filter 1 of the loop body: the species is valid for the context
PassesContext(especie, context_key) ==
    \/ context_key \in especie.contextos_validos
    \/ /\ context_key = "semi_intensivo"
       /\ "tejado_extensivo" \in especie.contextos_validos
       /\ "tejado_intensivo" \in especie.contextos_validos

\* Filter 2 without its test of the substrate depth
PassesConstraintsLoadOnly(especie, caracteristicas) ==
    LET carga_admisible ==
            IF caracteristicas.carga_admisible_kg_m2 = None THEN 9999
            ELSE caracteristicas.carga_admisible_kg_m2
    IN  ~ (carga_admisible < especie.restricciones.peso_max_kg_m2)

\* Filter 2: substrate depth and weight capacity
PassesConstraints(especie, caracteristicas) ==
    LET restricciones == especie.restricciones
        profundidad_disponible ==
            GetOpt(caracteristicas, "profundidad_sustrato_cm", 100)
        carga_admisible ==
            GetOpt(caracteristicas, "carga_admisible_kg_m2", 9999)
    IN  /\ ~ (profundidad_disponible
                < Get(restricciones, "profundidad_minima_cm", 0))
        /\ ~ (carga_admisible < Get(restricciones, "peso_max_kg_m2", 0))

\* the loop body without Filter 3
PassesAnySun(especie, caracteristicas) == TRUE

\* Filter 3: solar exposure compatibility
PassesSun(especie, caracteristicas) ==
    LET exposicion_solar ==
            IF caracteristicas.exposicion_solar = "absent" THEN "pleno_sol"
            ELSE caracteristicas.exposicion_solar
        req_sol == especie.requerimientos_sol
    IN  /\ ~ (exposicion_solar = "sombra" /\ req_sol = "pleno_sol")
        /\ ~ (exposicion_solar = "pleno_sol" /\ req_sol = "sombra")

\* list.sort(key = score, reverse = True): stable, descending
RECURSIVE InsertDesc(_, _)
InsertDesc(sorted, x) ==
    IF sorted = <<>> THEN <<x>>
    ELSE IF Head(sorted).idoneidad_score >= x.idoneidad_score
         THEN <<Head(sorted)>> \o InsertDesc(Tail(sorted), x)
         ELSE <<x>> \o sorted

\* the list in the order of the catalogue, not sorted
KeepOrder(s) == s

RECURSIVE SortDesc(_)
SortDesc(s) ==
    IF s = <<>> THEN <<>>
    ELSE InsertDesc(SortDesc(SubSeq(s, 1, Len(s) - 1)), s[Len(s)])

\* especies_aptas after the loop over ESPECIES_DATABASE from index i
RECURSIVE EspeciesAptas(_, _, _, _)
EspeciesAptas(i, context_key, caracteristicas, prioridad) ==
    IF i > Len(ESPECIES_DATABASE) THEN <<>>
    ELSE LET especie == ESPECIES_DATABASE[i]
             rest == EspeciesAptas(i + 1, context_key, caracteristicas,
                                   prioridad)
         IN  IF /\ PassesContext(especie, context_key)
                /\ PassesConstraints(especie, caracteristicas)
                /\ PassesSun(especie, caracteristicas)
             THEN << [especie |-> especie,
                      idoneidad_score |->
                         calculate_suitability_score(especie, caracteristicas,
                                                     prioridad)] >> \o rest
             ELSE rest

\* recommend_species_by_context
recommend_species_by_context(tipo_especializacion, caracteristicas, prioridad, max_especies) ==
    LET context_key == ContextKey(tipo_especializacion, caracteristicas)
        especies_aptas ==
            EspeciesAptas(1, context_key, caracteristicas, prioridad)
    IN  Take(SortDesc(especies_aptas), max_especies)

(***************************************************************************)
(* WRITES TO THE PROCESS-WIDE TABLES.  ESPECIES, ESPECIES_DATABASE, the    *)
(* cost tables and ZONAS_SUBVENCION are module-level objects, shared by    *)
(* every request the process serves.  A dict is referred to by its owner:  *)
(* an entry of a table of a module, or a dict the running call created.    *)
(* The only item assignments of the request path are those of              *)
(* get_species_by_exposure, calculate_plant_quantities and                 *)
(* recommend_species_by_context; the other tables are only read.           *)
(***************************************************************************)
\* the dict at index i of the list `lista` of a module-level table
TableEntry(table, lista, i) ==
    [owner |-> "module", table |-> table, lista |-> lista, i |-> i]

\* the same dict under another name, where no copy is taken
DictAlias(ref) == ref

\* especie.copy() and {**especie, ...}: a new dict, which the call owns
DictCopy(ref) == [ref EXCEPT !.owner = "call"]

\* ref[key] = value for each key of keys: the items of the process-wide
\* tables the assignments reach
SetItems(ref, keys) ==
    IF ref.owner = "module"
    THEN { <<ref.table, ref.lista, ref.i, key>> : key \in keys }
    ELSE {}

\* ESPECIES[lista][:n], as references
EspeciesRefs(lista, n) ==
    [i \in 1..Min(n, Len(ESPECIES[lista])) |-> TableEntry("ESPECIES", lista, i)]

\* especies_sol[:max_especies] of get_species_by_exposure, as references
EspeciesSolRefs(clasificacion_solar, max_especies) ==
    LET especies_sol ==
            IF clasificacion_solar = "SOL_DIRECTO"
            THEN EspeciesRefs("aromaticas", 3) \o EspeciesRefs("suculentas", 1)
            ELSE IF clasificacion_solar = "SOMBRA"
                 THEN EspeciesRefs("sombra", Len(ESPECIES.sombra))
                 ELSE EspeciesRefs("aromaticas", 2) \o EspeciesRefs("sombra", 2)
    IN  Take(especies_sol, max_especies)

\* the dicts get_species_by_exposure returns: esp_copy of each iteration
get_species_by_exposure_dicts(clasificacion_solar, max_especies) ==
    LET refs == EspeciesSolRefs(clasificacion_solar, max_especies)
    IN  [i \in 1..Len(refs) |-> DictCopy(refs[i])]

\* esp_copy['viabilidad'] = ... and esp_copy['razon'] = ...
get_species_by_exposure_writes(clasificacion_solar, max_especies) ==
    LET dicts == get_species_by_exposure_dicts(clasificacion_solar, max_especies)
    IN  UNION { SetItems(dicts[i], {"viabilidad", "razon"}) :
                  i \in 1..Len(dicts) }

\* esp_result = especie.copy(); esp_result['cantidad_estimada'] = ...;
\* esp_result['coste_total_eur'] = ...
calculate_plant_quantities_writes(especies) ==
    UNION { SetItems(DictCopy(especies[i]),
                     {"cantidad_estimada", "coste_total_eur"}) :
              i \in 1..Len(especies) }

\* the assignments of value_generation_layer's calls on the catalogue
value_generation_layer_writes(vision) ==
    LET clasificacion_solar == vision.solar_data.clasificacion
    IN  get_species_by_exposure_writes(clasificacion_solar, 3)
          \cup calculate_plant_quantities_writes(
                   get_species_by_exposure_dicts(clasificacion_solar, 3))

\* {**especie, 'idoneidad_score': score} for each species that passes the
\* three filters
recommend_species_by_context_writes(tipo_especializacion, caracteristicas) ==
    LET context_key == ContextKey(tipo_especializacion, caracteristicas)
        aptas == { i \in 1..Len(ESPECIES_DATABASE) :
                     /\ PassesContext(ESPECIES_DATABASE[i], context_key)
                     /\ PassesConstraints(ESPECIES_DATABASE[i], caracteristicas)
                     /\ PassesSun(ESPECIES_DATABASE[i], caracteristicas) }
    IN  UNION { SetItems(DictCopy(TableEntry("ESPECIES_DATABASE", "", i)),
                         {"idoneidad_score"}) : i \in aptas }

(***************************************************************************)
(* RETROSPECTIVE ROI  (src/api/retrospective_analyze.py)                   *)
(* Money in cents, roi_porcentaje in 1e-2 percent, payback_anos in 1e-1    *)
(* year.                                                                   *)
(***************************************************************************)
\* sum of 1 / (1 + TASA_DESCUENTO)^ano over the 25 years of the horizon,
\* in 1e-3
ANNUITY_25 == 17413

\* calculate_roi dividing whatever the investment and the net benefit are
calculate_roi_unguarded(coste_inicial, ahorro_anual, mantenimiento_anual) ==
    LET beneficio_neto_anual == ahorro_anual - mantenimiento_anual
    IN  [beneficio_neto_anual |-> beneficio_neto_anual,
         roi_porcentaje |->
            PyDiv(beneficio_neto_anual * 10000, coste_inicial),
         payback_anos |->
            IF beneficio_neto_anual = 0 THEN ZeroDivisionError
            ELSE RoundDiv(coste_inicial * 10, Abs(beneficio_neto_anual)),
         vnp_25_anos_eur |->
            RoundDiv(beneficio_neto_anual * ANNUITY_25, 1000) - coste_inicial]

\* calculate_roi on the projection's coste_neto_inicial_eur,
\* ahorro_total_anual and mantenimiento_anual_eur
calculate_roi(coste_inicial, ahorro_anual, mantenimiento_anual) ==
    LET beneficio_neto_anual == ahorro_anual - mantenimiento_anual
        roi_pct == IF coste_inicial > 0
                   THEN PyDiv(beneficio_neto_anual * 10000, coste_inicial)
                   ELSE 0
        payback == IF beneficio_neto_anual > 0
                   THEN PyDiv(coste_inicial * 10, beneficio_neto_anual)
                   ELSE 999 * 10
        vnp == RoundDiv(beneficio_neto_anual * ANNUITY_25, 1000)
               - coste_inicial
    IN  [beneficio_neto_anual |-> beneficio_neto_anual,
         roi_porcentaje |-> roi_pct,
         payback_anos |-> payback,
         vnp_25_anos_eur |-> vnp]

(***************************************************************************)
(* ANALYSIS ENGINE - 3-LAYER ARCHITECTURE  (src/api/analyze.py)            *)
(***************************************************************************)
\* payback value of an investment that never pays back, analyze.py:1208
SENTINEL == 999

\* the five components without the caps of min(..., weight)
GreenScoreComponentsUncapped(factor_verde, horas_sol, area_util_pct, beneficio_ecosistemico_score, cumple_normativa) ==
    [fv_score |-> factor_verde * 375,
     solar_score |-> RoundDiv(horas_sol * 500, 7),
     area_score |-> area_util_pct * 150,
     eco_score |-> RoundDiv(beneficio_ecosistemico_score * 100, 3),
     compliance_score |-> IF cumple_normativa THEN 150000 ELSE 75000]

\* the five weighted components of _calculate_green_score, in 1e-4 point
GreenScoreComponents(factor_verde, horas_sol, area_util_pct, beneficio_ecosistemico_score, cumple_normativa) ==
    [fv_score |-> Min(factor_verde * 375, 300000),
     solar_score |-> Min(RoundDiv(horas_sol * 500, 7), 200000),
     area_score |-> area_util_pct * 150,
     eco_score |->
        Min(RoundDiv(beneficio_ecosistemico_score * 100, 3), 200000),
     compliance_score |-> IF cumple_normativa THEN 150000 ELSE 75000]

\* _calculate_green_score, in 1e-1 point
calculate_green_score(factor_verde, horas_sol, area_util_pct, beneficio_ecosistemico_score, cumple_normativa) ==
    LET c == GreenScoreComponents(factor_verde, horas_sol, area_util_pct,
                 beneficio_ecosistemico_score, cumple_normativa)
        total_score == c.fv_score + c.solar_score + c.area_score
                       + c.eco_score + c.compliance_score
    IN  RoundDiv(total_score, 1000)

\* geospatial_layer
geospatial_layer(coordinates, center_lat, center_lon) ==
    LET area_m2 == calculate_area_haversine(coordinates)
        perimetro_m == calculate_perimeter(coordinates)
    IN  [area_m2 |-> area_m2,
         perimetro_m |-> perimetro_m,
         inclinacion_grados |->
            calculate_slope_from_area_and_perimeter(area_m2, perimetro_m),
         center_lat |-> center_lat,
         center_lon |-> center_lon,
         subsidy_info |-> check_subsidy_eligibility(center_lat, center_lon)]

\* computer_vision_layer, with the draws of the two generators it creates
computer_vision_layer(geo, seg_draw, shadow_draw) ==
    LET segmentation == segment_surfaces(geo.area_m2 * 100, seg_draw)
    IN  [segmentation |-> segmentation,
         solar_data |-> analyze_solar_exposure(geo.center_lat, geo.center_lon,
                                               geo.area_m2, shadow_draw),
         ndvi_actual |-> calculate_ndvi(geo.area_m2,
                                        segmentation.vegetacion_previa_m2)]

\* the local variables of value_generation_layer, analyze.py:1159-1219
\* amortizacion_anos in 1e-1 year, roi_porcentaje in 1e-2 percent,
\* beneficio_ecosistemico_score in 1e-3 kg per m2
ValueLocals(geo, vision) ==
    LET area_m2 == geo.area_m2
        area_util_m2 == vision.segmentation.area_util_m2
        clasificacion_solar == vision.solar_data.clasificacion
        horas_sol == vision.solar_data.horas_sol_anuales
        orientacion == get_orientation_from_solar_hours(horas_sol)
        fv_result == calculate_factor_verde(area_m2, area_util_m2,
                         "extensiva", orientacion,
                         "cubierta_vegetal_extensiva")
        factor_verde == fv_result.factor_verde
        especies == get_species_by_exposure(clasificacion_solar, 3)
        especies_con_cantidades ==
            calculate_plant_quantities(area_util_m2, especies)
        especies_nativas_pct == get_native_species_percentage(especies)
        requisitos == validate_requirements(area_m2, geo.inclinacion_grados,
                          factor_verde, especies_nativas_pct, "extensiva")
        presupuesto ==
            calculate_budget(area_util_m2 * 100, especies_con_cantidades, TRUE)
        subsidy_calc ==
            calculate_subsidy_amount(presupuesto.coste_total_inicial_eur * 10,
                                     geo.subsidy_info.porcentaje, None)
        beneficios == calculate_ecosystem_benefits(area_util_m2, "extensiva")
        ahorro_energia == calculate_energy_savings(area_util_m2, "extensiva")
        ahorro_anual_total == ahorro_energia.ahorro_energia_eur_anual
                              + beneficios.valor_retencion_agua_eur_anual
        inversion_neta == subsidy_calc.inversion_neta_eur
    IN  [area_m2 |-> area_m2,
         area_util_m2 |-> area_util_m2,
         fv_result |-> fv_result,
         especies_con_cantidades |-> especies_con_cantidades,
         especies_nativas_pct |-> especies_nativas_pct,
         requisitos |-> requisitos,
         presupuesto |-> presupuesto,
         subsidy_calc |-> subsidy_calc,
         beneficios |-> beneficios,
         ahorro_energia |-> ahorro_energia,
         ahorro_anual_total |-> ahorro_anual_total,
         inversion_neta |-> inversion_neta,
         amortizacion_anos |->
            IF ahorro_anual_total > 0
            THEN PyDiv(inversion_neta * 10, ahorro_anual_total)
            ELSE SENTINEL * 10,
         roi_porcentaje |->
            IF inversion_neta > 0
            THEN PyDiv(ahorro_anual_total * 10000, inversion_neta)
            ELSE 0,
         beneficio_ecosistemico_score |->
            IF area_util_m2 > 0
            THEN PyDiv(beneficios.co2_capturado_kg_anual * 10000,
                       area_util_m2)
            ELSE 0]

\* value_generation_layer: the report built from the locals
value_generation_layer(geo, vision) ==
    LET v == ValueLocals(geo, vision)
    IN  [success |-> TRUE,
         green_score |->
            calculate_green_score(v.fv_result.factor_verde,
                vision.solar_data.horas_sol_anuales,
                vision.segmentation.area_util_pct,
                v.beneficio_ecosistemico_score, v.requisitos.cumple_todos),
         area_m2 |-> v.area_m2,
         perimetro_m |-> RoundDiv(geo.perimetro_m, 10),
         inclinacion_grados |-> RoundDiv(geo.inclinacion_grados, 100),
         normativa |-> [factor_verde |-> v.fv_result.factor_verde,
                        cumple_pecv_madrid |-> v.requisitos.cumple_todos,
                        requisitos |-> v.requisitos],
         subvencion |-> [elegible |-> geo.subsidy_info.elegible,
                         porcentaje |-> geo.subsidy_info.porcentaje,
                         programa |-> geo.subsidy_info.programa,
                         monto_estimado_eur |->
                             v.subsidy_calc.monto_subvencion_eur],
         especies_recomendadas |-> v.especies_con_cantidades,
         presupuesto |-> v.presupuesto,
         roi_ambiental |->
            [roi_porcentaje |-> v.roi_porcentaje,
             amortizacion_anos |-> v.amortizacion_anos,
             ahorro_anual_eur |-> RoundDiv(v.ahorro_anual_total, 100),
             valor_neto_presente_eur |->
                 RoundDiv(v.ahorro_anual_total * 25 - v.inversion_neta, 100)]]

\* a ZeroDivisionError left one of the layer's divisions
VisionRaises(vision) == vision.segmentation.area_util_pct = ZeroDivisionError

ValueRaises(v) ==
    \/ v.presupuesto.coste_por_m2_eur = ZeroDivisionError
    \/ v.amortizacion_anos = ZeroDivisionError
    \/ v.roi_porcentaje = ZeroDivisionError
    \/ v.beneficio_ecosistemico_score = ZeroDivisionError

(***************************************************************************)
(* THE IMAGE-ANALYSIS COLLABORATOR  (src/backend/services/                 *)
(* rooftop_vision_service.py with Gemini, src/ai-service/app/services/     *)
(* rooftop_vision_service.py with GPT-4 Vision).  A response of the        *)
(* collaborator is its text: json tells whether json.loads accepts it,     *)
(* tipo_cubierta, estado and confianza are the values of these keys        *)
(* ("absent" and None: no such key), obstrucciones is the kind of value of *)
(* that key ("absent", a list of "dicts", a list of "strings", or "null")  *)
(* with its length, and others tells whether the remaining keys the        *)
(* service asks for are present.  Of a result the model keeps              *)
(* tipo_cubierta, estado_conservacion, obstrucciones and confianza.        *)
(***************************************************************************)
\* analyze_rooftop_image of the backend
analyze_rooftop_image(has_api_key, downloaded, answered, response) ==
    IF ~ has_api_key \/ ~ downloaded \/ ~ answered
    THEN [tipo_cubierta |-> "desconocido", estado_conservacion |-> "bueno",
          obstrucciones |-> [type |-> "dicts", len |-> 0], confianza |-> 20]
    ELSE IF ~ response.json
    THEN [tipo_cubierta |-> "desconocido", estado_conservacion |-> "bueno",
          obstrucciones |-> [type |-> "dicts", len |-> 0], confianza |-> 30]
    ELSE [tipo_cubierta |-> IF response.tipo_cubierta = "absent"
                            THEN "desconocido" ELSE response.tipo_cubierta,
          estado_conservacion |-> IF response.estado = "absent"
                                  THEN "desconocido" ELSE response.estado,
          obstrucciones |-> IF response.obstrucciones.type = "absent"
                            THEN [type |-> "dicts", len |-> 0]
                            ELSE response.obstrucciones,
          confianza |-> IF response.confianza = None THEN 50
                        ELSE response.confianza]

\* get_fallback_analysis of the ai-service
get_fallback_analysis == [tipo_cubierta |-> "plana", confianza |-> 50]

\* analyze_rooftop_from_image of the ai-service
analyze_rooftop_from_image(has_client, answered, response) ==
    IF ~ has_client THEN get_fallback_analysis
    ELSE IF \/ ~ answered
            \/ ~ response.json
            \/ response.tipo_cubierta = "absent"
            \/ response.confianza = None
            \/ ~ response.others
    THEN [tipo_cubierta |-> "desconocido", confianza |-> 0]
    ELSE [tipo_cubierta |-> response.tipo_cubierta,
          confianza |-> response.confianza]

(***************************************************************************)
(* The request state machine: handler.do_POST builds an AnalysisEngine on  *)
(* the polygon and AnalysisEngine.analyze runs the three layers.           *)
(***************************************************************************)
VARIABLES
    pc,            \* position of the request in analyze()
    coordinates,   \* self.coordinates
    center,        \* <<self.center_lat, self.center_lon>>
    geo_data,      \* output of geospatial_layer
    vision_data,   \* output of computer_vision_layer
    locals,        \* local variables of value_generation_layer
    report,        \* the report analyze() returns
    call,          \* last call of a library function: name, arguments, result
    random_state,  \* state of the generator of the random module, which
                   \* utils/computer_vision.py draws from
    invocation,    \* the running calls of the simulator, one per thread
    written        \* the items of the process-wide tables assigned since the
                   \* process started

pipeline_vars ==
    <<pc, coordinates, center, geo_data, vision_data, locals, report>>

\* value of a variable nothing has been assigned to
Unset == [unset |-> TRUE]

\* sites of the requests, <<lon, lat>> in 1e-5 degree: one inside each
\* subsidy zone only, one north of 41.5 and one south of 39.5 degrees
Anchors ==
    { <<-370380, 4041680>>, <<-370000, 4043500>>, <<-365000, 4046000>>,
      <<-355000, 4052000>>, <<-300000, 4160000>>, <<-370000, 3900000>> }

\* vertices of a roof around its site, offsets in 1e-5 degree
Offsets == { <<0, 0>>, <<12, 0>>, <<0, 12>>, <<5, 5>> }

Rings ==
    UNION { { [i \in 1..n |-> <<a[1] + f[i][1], a[2] + f[i][2]>>] :
                a \in Anchors, f \in [1..n -> Offsets] } : n \in 0..MaxPts }

\* no library function has been called
NoCall == [fn |-> "none"]

\* the threads the simulator is called from
Threads == {"a", "b"}

\* a thread that is not in a call of the simulator
Idle ==
    [pc |-> "idle", impl |-> "none", fn |-> "none", caller |-> "none",
     area_m2 |-> 0, fixed_seed |-> None, seed |-> None, rng |-> None,
     draws |-> <<>>, result |-> Unset]

PipelineInit ==
    /\ call = NoCall
    /\ written = {}
    /\ random_state = 0
    /\ invocation = [t \in Threads |-> Idle]
    /\ pc = "idle"
    /\ coordinates = <<>>
    /\ center = <<0, 0>>
    /\ geo_data = Unset
    /\ vision_data = Unset
    /\ locals = Unset
    /\ report = Unset

\* AnalysisEngine.__init__ on the polygon of a new request
Request ==
    /\ pc = "idle"
    /\ \E ring \in Rings :
          /\ coordinates' = ring
          /\ center' = get_center_coordinates(ring)
    /\ pc' = "geospatial"
    /\ geo_data' = Unset
    /\ vision_data' = Unset
    /\ locals' = Unset
    /\ report' = Unset
    /\ UNCHANGED <<call, random_state, invocation, written>>

\* analyze() handing the output of layer 1 to layer 3, without layer 2
GeospatialLayerThenValue ==
    /\ pc = "geospatial"
    /\ geo_data' = geospatial_layer(coordinates, center[1], center[2])
    /\ pc' = "value"
    /\ UNCHANGED <<coordinates, center, vision_data, locals, report, call, random_state, invocation, written>>

GeospatialLayer ==
    /\ pc = "geospatial"
    /\ geo_data' = geospatial_layer(coordinates, center[1], center[2])
    /\ pc' = "vision"
    /\ UNCHANGED <<coordinates, center, vision_data, locals, report, call, random_state, invocation, written>>

ComputerVisionLayer ==
    /\ pc = "vision"
    /\ \E seg_draw \in SegmentDraws, shadow_draw \in ShadowDraws :
          LET vision == computer_vision_layer(geo_data, seg_draw, shadow_draw)
          IN  IF VisionRaises(vision)
              THEN pc' = "raised" /\ vision_data' = Unset
              ELSE pc' = "value" /\ vision_data' = vision
    /\ UNCHANGED <<coordinates, center, geo_data, locals, report, call, random_state, invocation, written>>

ValueGenerationLayer ==
    /\ pc = "value"
    /\ LET v == ValueLocals(geo_data, vision_data)
       IN  IF ValueRaises(v)
           THEN pc' = "raised" /\ locals' = Unset /\ report' = Unset
           ELSE /\ pc' = "done"
                /\ locals' = v
                /\ report' = value_generation_layer(geo_data, vision_data)
    /\ written' = written \cup value_generation_layer_writes(vision_data)
    /\ UNCHANGED <<coordinates, center, geo_data, vision_data, call, random_state, invocation>>

\* do_POST writes the response (200 with the report, 500 after an
\* exception) and the engine of the request is dropped
Respond ==
    /\ pc \in {"done", "raised"}
    /\ pc' = "idle"
    /\ coordinates' = <<>>
    /\ center' = <<0, 0>>
    /\ geo_data' = Unset
    /\ vision_data' = Unset
    /\ locals' = Unset
    /\ report' = Unset
    /\ UNCHANGED <<call, random_state, invocation, written>>

PipelineNext ==
    \/ Request
    \/ GeospatialLayer
    \/ ComputerVisionLayer
    \/ ValueGenerationLayer
    \/ Respond

vars == <<pc, coordinates, center, geo_data, vision_data, locals, report, call, random_state, invocation, written>>

Init == PipelineInit

Next == PipelineNext

Spec == Init /\ [][Next]_vars

(***************************************************************************)
(* Calls of the subsidy functions (utils/subsidy_zones.py, analyze.py).    *)
(***************************************************************************)
\* latitudes and longitudes in 1e-6 degree: every edge of every zone, one
\* step outside the outermost zone and one step around the innermost one
SubsidyLats ==
    { 40299999, 40300000, 40350000, 40395000, 40404999, 40405000, 40416800,
      40430000, 40430001, 40440000, 40480000, 40550000, 40550001 }

SubsidyLons ==
    { -3900001, -3900000, -3800000, -3730000, -3720000, -3703800, -3690000,
      -3689999, -3680000, -3600000, -3500000, -3499999 }

\* total costs and caps in 1e-3 euro, percentages
CostesTotales == { 0, 10, 14, 10020, 330000, 1000000, 12351370, 20000000 }

Porcentajes == { 0, 40, 50, 60, 80, 100 }

Topes == { None, 0, 4, 100006, 500000, 8000000 }

CheckSubsidyEligibility ==
    /\ call = NoCall
    /\ \E lat \in SubsidyLats, lon \in SubsidyLons :
          call' = [fn |-> "check_subsidy_eligibility",
                   lat |-> lat, lon |-> lon,
                   result |-> check_subsidy_eligibility(lat, lon)]
    /\ UNCHANGED <<pipeline_vars, random_state, invocation, written>>

GetAllAvailablePrograms ==
    /\ call = NoCall
    /\ \E lat \in SubsidyLats, lon \in SubsidyLons :
          call' = [fn |-> "get_all_available_programs",
                   lat |-> lat, lon |-> lon,
                   result |-> get_all_available_programs(lat, lon)]
    /\ UNCHANGED <<pipeline_vars, random_state, invocation, written>>

CalculateSubsidyAmount ==
    /\ call = NoCall
    /\ \E coste_total \in CostesTotales, porcentaje \in Porcentajes,
          tope_maximo \in Topes :
          call' = [fn |-> "calculate_subsidy_amount",
                   coste_total |-> coste_total, porcentaje |-> porcentaje,
                   tope_maximo |-> tope_maximo,
                   result |-> calculate_subsidy_amount(coste_total,
                                  porcentaje, tope_maximo)]
    /\ UNCHANGED <<pipeline_vars, random_state, invocation, written>>

\* the caller takes the result and the frame of the call is dropped
Return ==
    /\ call # NoCall
    /\ call.fn = "engine.analyze_area" => call.pc \in {"done", "raised"}
    /\ call' = NoCall
    /\ UNCHANGED <<pipeline_vars, random_state, invocation, written>>

SubsidyNext ==
    \/ CheckSubsidyEligibility
    \/ GetAllAvailablePrograms
    \/ CalculateSubsidyAmount
    \/ Return

SpecSubsidy == PipelineInit /\ [][SubsidyNext]_vars

(***************************************************************************)
(* Calls of the species recommender (utils/species_recommender.py).        *)
(***************************************************************************)
\* largest max_especies below the default of 10
MaxEspecies == 3

Tipos == { "tejado", "jardin_vertical", "solar_vacio", "desconocido" }

\* None: the key is absent from caracteristicas
Profundidades == { None, 0, 3, 4, 10, 14, 15, 20, 29, 30, 200 }

Cargas == { None, 0, 5, 11, 12, 18, 25, 35, 500 }

Exposiciones == { "absent", "pleno_sol", "media_sombra", "sombra" }

Prioridades ==
    { "economia", "biodiversidad", "comestible", "estetica", "desconocida" }

RecommendSpeciesByContext ==
    /\ call = NoCall
    /\ \E tipo \in Tipos, profundidad \in Profundidades, carga \in Cargas,
          exposicion \in Exposiciones, prioridad \in Prioridades,
          max_especies \in (0..MaxEspecies) \cup {10} :
          LET caracteristicas ==
                  [profundidad_sustrato_cm |-> profundidad,
                   carga_admisible_kg_m2 |-> carga,
                   exposicion_solar |-> exposicion]
          IN  /\ call' = [fn |-> "recommend_species_by_context",
                       tipo_especializacion |-> tipo,
                       caracteristicas |-> caracteristicas,
                       prioridad |-> prioridad,
                       max_especies |-> max_especies,
                       result |-> recommend_species_by_context(tipo,
                                      caracteristicas, prioridad,
                                      max_especies)]
              /\ written' = written \cup
                    recommend_species_by_context_writes(tipo, caracteristicas)
    /\ UNCHANGED <<pipeline_vars, random_state, invocation>>

SpeciesNext == RecommendSpeciesByContext \/ Return

SpecSpecies == PipelineInit /\ [][SpeciesNext]_vars

(***************************************************************************)
(* Calls of calculate_roi (retrospective_analyze.py).                      *)
(***************************************************************************)
\* cents
CostesIniciales == { 0, 100, 99900, 500000, 1000000 }

AhorrosAnuales == { 0, 100, 10000, 50000, 100000 }

MantenimientosAnuales == { 0, 100, 10000, 50000, 100000 }

CalculateRoi ==
    /\ call = NoCall
    /\ \E coste_inicial \in CostesIniciales, ahorro_anual \in AhorrosAnuales,
          mantenimiento_anual \in MantenimientosAnuales :
          call' = [fn |-> "calculate_roi",
                   coste_inicial |-> coste_inicial,
                   ahorro_anual |-> ahorro_anual,
                   mantenimiento_anual |-> mantenimiento_anual,
                   result |-> calculate_roi(coste_inicial, ahorro_anual,
                                            mantenimiento_anual)]
    /\ UNCHANGED <<pipeline_vars, random_state, invocation, written>>

RoiNext == CalculateRoi \/ Return

SpecRoi == PipelineInit /\ [][RoiNext]_vars

(***************************************************************************)
(* The process serves one request at a time: the analysis of a polygon,    *)
(* or a call of calculate_roi for a retrospective analysis.                *)
(***************************************************************************)
RatiosNext ==
    \/ call = NoCall /\ PipelineNext
    \/ pc = "idle" /\ RoiNext

SpecRatios == PipelineInit /\ [][RatiosNext]_vars

(***************************************************************************)
(* Calls of calculate_budget (analyze.py, same text in                     *)
(* standards/costs_2024.py).  The areas are in 1e-4 m2: 0, 0.0033,        *)
(* 0.0431, 33.3333, 60.39, 100, 123.4567 and 250.0001 m2, none of which    *)
(* puts an amount half-way between two cents; the species are a result of  *)
(* calculate_plant_quantities.                                             *)
(***************************************************************************)
CalculateBudget ==
    /\ call = NoCall
    /\ \E area_m2 \in {0, 33, 431, 333333, 603900, 1000000, 1234567, 2500001},
          clasificacion_solar \in {"SOL_DIRECTO", "MIXTA", "SOMBRA"},
          max_especies \in 0..3, area_plantas \in {0, 6039},
          incluir_riego \in BOOLEAN :
          LET especies_list ==
                  calculate_plant_quantities(area_plantas,
                      get_species_by_exposure(clasificacion_solar,
                                              max_especies))
          IN  call' = [fn |-> "calculate_budget",
                       area_m2 |-> area_m2,
                       especies_list |-> especies_list,
                       incluir_riego |-> incluir_riego,
                       result |-> calculate_budget(area_m2, especies_list,
                                                   incluir_riego)]
    /\ UNCHANGED <<pipeline_vars, random_state, invocation, written>>

BudgetNext == CalculateBudget \/ Return

SpecBudget == PipelineInit /\ [][BudgetNext]_vars

(***************************************************************************)
(* Calls of the scoring functions.  _calculate_green_score is called on    *)
(* the values value_generation_layer can hand it: the green factor of an   *)
(* extensive roof is at most 0.75 * 1.0 * 0.6 = 0.45, the solar hours lie  *)
(* between int(2200 * 0.75) and int(2600 * 0.95), the usable area is a     *)
(* percentage of the area, and the CO2 captured is rounded to 0.1 kg       *)
(* before it is divided by the usable area (10 kg per m2 on a usable area  *)
(* of 0.01 m2, 5 kg per m2 on large ones).                                 *)
(***************************************************************************)
CalculateGreenScore ==
    /\ call = NoCall
    /\ \E factor_verde \in {0, 1, 232, 450},
          horas_sol \in {1650, 1800, 2200, 2470},
          area_util_pct \in {0, 1, 905, 1000},
          beneficio_ecosistemico_score \in {0, 4997, 5000, 10000},
          cumple_normativa \in BOOLEAN :
          call' = [fn |-> "_calculate_green_score",
                   beneficio_ecosistemico_score |->
                       beneficio_ecosistemico_score,
                   components |->
                       GreenScoreComponents(factor_verde, horas_sol,
                           area_util_pct, beneficio_ecosistemico_score,
                           cumple_normativa),
                   result |->
                       calculate_green_score(factor_verde, horas_sol,
                           area_util_pct, beneficio_ecosistemico_score,
                           cumple_normativa)]
    /\ UNCHANGED <<pipeline_vars, random_state, invocation, written>>

\* calculate_factor_verde (analyze.py, same text in
\* standards/pecv_madrid.py) on two green areas, the second at least the
\* first, with the same total area and coefficients; areas in 1e-2 m2
CalculateFactorVerde ==
    /\ call = NoCall
    /\ \E area_total_m2 \in {0, 1, 5000, 10000},
          area_verde_m2 \in {0, 1, 2, 4500, 4501, 10000, 20000},
          area_verde_mayor_m2 \in {0, 1, 2, 4500, 4501, 10000, 20000},
          tipo_cubierta \in {"extensiva", "intensiva", "desconocida"},
          orientacion \in {"sur", "norte", "desconocida"},
          tipo_infraestructura \in
              {"cubierta_vegetal_extensiva", "jardin_vertical"} :
          /\ area_verde_m2 <= area_verde_mayor_m2
          /\ call' = [fn |-> "calculate_factor_verde",
                      area_total_m2 |-> area_total_m2,
                      area_verde_m2 |-> area_verde_m2,
                      area_verde_mayor_m2 |-> area_verde_mayor_m2,
                      result |->
                          calculate_factor_verde(area_total_m2,
                              area_verde_m2, tipo_cubierta, orientacion,
                              tipo_infraestructura),
                      result_mayor |->
                          calculate_factor_verde(area_total_m2,
                              area_verde_mayor_m2, tipo_cubierta,
                              orientacion, tipo_infraestructura)]
    /\ UNCHANGED <<pipeline_vars, random_state, invocation, written>>

ScoreNext == CalculateGreenScore \/ CalculateFactorVerde \/ Return

SpecScore == PipelineInit /\ [][ScoreNext]_vars

(***************************************************************************)
(* Calls of the image-analysis functions of the two services.              *)
(***************************************************************************)
AnalyzeRooftop ==
    /\ call = NoCall
    /\ \E service \in {"backend", "ai-service"},
          credentials \in BOOLEAN, downloaded \in BOOLEAN,
          answered \in BOOLEAN, json \in BOOLEAN,
          tipo_cubierta \in {"absent", "plana", "inclinada"},
          confianza \in {None, 0, 50, 95}, others \in BOOLEAN :
          LET response ==
                  [json |-> json, tipo_cubierta |-> tipo_cubierta,
                   confianza |-> confianza, others |-> others,
                   estado |-> IF others THEN "bueno" ELSE "absent",
                   obstrucciones |->
                       [type |-> IF others THEN "dicts" ELSE "absent",
                        len |-> 0]]
          IN  call' = [fn |-> "analyze_rooftop",
                       service |-> service,
                       credentials |-> credentials,
                       downloaded |-> downloaded,
                       answered |-> answered,
                       response |-> response,
                       result |->
                          IF service = "backend"
                          THEN analyze_rooftop_image(credentials, downloaded,
                                                     answered, response)
                          ELSE analyze_rooftop_from_image(credentials,
                                                     answered, response)]
    /\ UNCHANGED <<pipeline_vars, random_state, invocation, written>>

VisionNext == AnalyzeRooftop \/ Return

SpecVision == PipelineInit /\ [][VisionNext]_vars

(***************************************************************************)
(* THE ROOFTOP SPECIALISATION (specialize-tejado.py)                       *)
(*                                                                         *)
(* Loads and capacities are in kg/m2, the margin in 1e-2 kg/m2.            *)
(***************************************************************************)
\* GREEN_ROOF_WEIGHTS[tipo]['peso_saturado_kg_m2']
GREEN_ROOF_WEIGHTS ==
    [extensiva |-> 180, intensiva |-> 350, semi_intensiva |-> 250]

MIN_LOAD_CAPACITY_KG_M2 ==
    [extensiva |-> 250, intensiva |-> 500, semi_intensiva |-> 350]

TYPICAL_ROOF_CAPACITY ==
    [edificio_antiguo |-> 200, edificio_moderno |-> 300,
     edificio_reciente |-> 400, industrial_ligera |-> 350,
     industrial_pesada |-> 600]

\* TYPICAL_ROOF_CAPACITY.get(building_age, 300) decides the recommendation
analyze_roof_characteristics(area_m2, building_age) ==
    LET capacidad_estructural_kg_m2 ==
            IF building_age \in DOMAIN TYPICAL_ROOF_CAPACITY
            THEN TYPICAL_ROOF_CAPACITY[building_age] ELSE 300
    IN  [tipo_verde_recomendado |->
            IF capacidad_estructural_kg_m2 >= MIN_LOAD_CAPACITY_KG_M2.intensiva
            THEN "intensiva"
            ELSE IF capacidad_estructural_kg_m2 >= MIN_LOAD_CAPACITY_KG_M2.semi_intensiva
            THEN "semi_intensiva"
            ELSE IF capacidad_estructural_kg_m2 >= MIN_LOAD_CAPACITY_KG_M2.extensiva
            THEN "extensiva"
            ELSE "refuerzo_necesario",
         capacidad_estructural_kg_m2 |-> capacidad_estructural_kg_m2,
         estado_impermeabilizacion |->
            IF building_age = "edificio_reciente" THEN "bueno"
            ELSE IF building_age = "edificio_moderno" THEN "aceptable"
            ELSE "necesita_reparacion",
         accesibilidad |-> IF area_m2 > 50 THEN "si" ELSE "limitada"]

\* the admissible load is capacidad / 1.5, so three times the margin is
\* 2 * capacidad - 3 * peso; the percentage thresholds 30, 10 and 0 are
\* compared on margin * 100 against threshold * peso
calculate_structural_cte(area_m2, capacidad_estructural_kg_m2, tipo_verde) ==
    LET peso_cubierta_verde_kg_m2 == GREEN_ROOF_WEIGHTS[tipo_verde]
        margen_x3 == 2 * capacidad_estructural_kg_m2
                     - 3 * peso_cubierta_verde_kg_m2
        refuerzo_necesario == margen_x3 < 0
    IN  [peso_cubierta_verde_kg_m2 |-> peso_cubierta_verde_kg_m2,
         peso_total_kg |-> area_m2 * peso_cubierta_verde_kg_m2,
         capacidad_estructural_kg_m2 |-> capacidad_estructural_kg_m2,
         margen_seguridad_kg_m2 |-> RoundDiv(margen_x3 * 100, 3),
         refuerzo_estructural_necesario |-> refuerzo_necesario,
         viabilidad_estructural |->
            IF margen_x3 * 100 > 3 * 30 * peso_cubierta_verde_kg_m2
            THEN "alta"
            ELSE IF margen_x3 * 100 > 3 * 10 * peso_cubierta_verde_kg_m2
            THEN "media"
            ELSE IF margen_x3 > 0 THEN "baja"
            ELSE "nula",
         cumple_cte |-> ~ refuerzo_necesario]

(***************************************************************************)
(* THE REQUEST HANDLERS                                                    *)
(*                                                                         *)
(* A response is kept as its HTTP status, its error text and the field     *)
(* names that text holds; of a successful response the model keeps what    *)
(* the properties read.  A JSON number is a record of type "number" and    *)
(* its value, a value float() cannot convert has type "string", a key the  *)
(* body does not hold has type "absent".                                   *)
(***************************************************************************)
\* handler.do_POST of specialize-tejado.py: one except clause answers every
\* failure, the ValueError of the validation included
specialize_tejado_do_POST(json, analisis_id, area_base_m2, building_age) ==
    IF ~ json
    THEN [status |-> 500, error |-> "Expecting value", fields |-> {}]
    ELSE IF area_base_m2.type = "string"
    THEN [status |-> 500, error |-> "could not convert string to float",
          fields |-> {}]
    ELSE LET area == IF area_base_m2.type = "absent" THEN 0
                     ELSE area_base_m2.value
             age == IF building_age = "absent" THEN "edificio_moderno"
                    ELSE building_age
         IN  IF analisis_id = "absent" \/ area <= 0
             THEN [status |-> 500,
                   error |-> "Missing or invalid required fields",
                   fields |-> {}]
             ELSE IF age = "unhashable"
             THEN [status |-> 500, error |-> "unhashable type",
                   fields |-> {}]
             ELSE LET roof_chars == analyze_roof_characteristics(area, age)
                      tipo_verde ==
                          IF roof_chars.tipo_verde_recomendado
                                 = "refuerzo_necesario"
                          THEN "extensiva"
                          ELSE roof_chars.tipo_verde_recomendado
                  IN  [status |-> 200, error |-> "", fields |-> {},
                       caracteristicas_tejado |-> roof_chars,
                       calculo_estructural_cte |->
                           calculate_structural_cte(area,
                               roof_chars.capacidad_estructural_kg_m2,
                               tipo_verde)]

\* handler.do_POST of retrospective_analyze.py: a missing key is answered
\* by send_error(400, ...), a value the calculations cannot convert by the
\* except clause of the computation
retrospective_do_POST(json, baseline, projection) ==
    IF ~ json
    THEN [status |-> 400, error |-> "Invalid JSON", fields |-> {}]
    ELSE IF ~ baseline.present \/ ~ projection.present
    THEN [status |-> 400, error |-> "Missing required fields",
          fields |-> {"baseline", "projection"}]
    ELSE IF baseline.area_m2 = "absent" \/ baseline.tipo_superficie = "absent"
    THEN [status |-> 400, error |-> "Baseline missing required fields",
          fields |-> {"area_m2", "tipo_superficie"}]
    ELSE IF projection.tipo_cubierta = "absent"
    THEN [status |-> 400, error |-> "Projection missing required field",
          fields |-> {"tipo_cubierta"}]
    ELSE IF baseline.area_m2 = "string"
    THEN [status |-> 500, error |-> "Internal server error", fields |-> {}]
    ELSE IF projection.anos_horizonte = "string"
    THEN [status |-> 500, error |-> "Internal server error", fields |-> {}]
    ELSE [status |-> 200, error |-> "", fields |-> {}]

\* MAX_AREA_KM2 of urban_analysis_engine.py (5.0 km2) in m2
MAX_AREA_KM2 == 5000000

\* calculate_area_km2 of urban_analysis_engine.py in m2, for bounds in 1e-2
\* degree: the two haversine distances are taken along a meridian and
\* along the parallel of the centre (EARTH_RADIUS_M is the length in metres
\* of 1e-2 degree of a great circle)
calculate_area_km2(north, south, east, west) ==
    LET center_lat == (north + south) \div 2
        width_m == RoundDiv(Abs(east - west) * EARTH_RADIUS_M
                            * CosE3(center_lat * 10000), 1000)
        height_m == Abs(north - south) * EARTH_RADIUS_M
    IN  width_m * height_m

\* the fields of an AnalyzeAreaRequest that are missing or outside of the
\* range their Field declares
InvalidFields(request) ==
    request.missing
    \cup { f \in {"north", "south"} : request[f] < -9000 \/ request[f] > 9000 }
    \cup { f \in {"east", "west"} : request[f] < -18000 \/ request[f] > 18000 }

\* POST /analyze-area of the backend: the request model is validated before
\* analyze_area runs (422, every invalid field named); the HTTPException of
\* the checks of the bounds is raised inside the try block, where
\* "except Exception" catches it and raises the 500 of a failed analysis;
\* the ValueError of an area over MAX_AREA_KM2 is answered with success
\* false
analyze_area_endpoint(request) ==
    IF InvalidFields(request) # {}
    THEN [status |-> 422, error |-> "validation error",
          fields |-> InvalidFields(request)]
    ELSE IF request.north <= request.south
    THEN [status |-> 500,
          error |-> "Analysis failed: Invalid bounds: north must be greater than south",
          fields |-> {"north", "south"}]
    ELSE IF request.east <= request.west
    THEN [status |-> 500,
          error |-> "Analysis failed: Invalid bounds: east must be greater than west",
          fields |-> {"east", "west"}]
    ELSE IF calculate_area_km2(request.north, request.south, request.east, request.west) > MAX_AREA_KM2
    THEN [status |-> 200, error |-> "Area too large", fields |-> {}]
    ELSE [status |-> 200, error |-> "", fields |-> {}]

(***************************************************************************)
(* Requests to the three handlers.  Areas are in m2, the bounds of an area *)
(* in 1e-2 degree around Madrid, 91 and 181 degrees being out of range.    *)
(***************************************************************************)
SpecializeTejadoPost ==
    /\ call = NoCall
    /\ \E json \in BOOLEAN, analisis_id \in {"absent", "a1"},
          type \in {"absent", "string", "number"}, value \in {-1, 0, 40, 100},
          building_age \in (DOMAIN TYPICAL_ROOF_CAPACITY) \cup {"absent", "otro", "unhashable"} :
          LET area_base_m2 == [type |-> type,
                               value |-> IF type = "number" THEN value ELSE 0]
          IN  call' = [fn |-> "specialize_tejado",
                       json |-> json,
                       analisis_id |-> analisis_id,
                       area_base_m2 |-> area_base_m2,
                       building_age |-> building_age,
                       response |-> specialize_tejado_do_POST(json,
                                        analisis_id, area_base_m2,
                                        building_age)]
    /\ UNCHANGED <<pipeline_vars, random_state, invocation, written>>

RetrospectivePost ==
    /\ call = NoCall
    /\ \E json \in BOOLEAN,
          baseline \in [present : BOOLEAN,
                        area_m2 : {"absent", "string", "number"},
                        tipo_superficie : {"absent", "asfalto"}],
          projection \in [present : BOOLEAN,
                          tipo_cubierta : {"absent", "extensiva"},
                          anos_horizonte : {"absent", "string", "number"}] :
          call' = [fn |-> "retrospective",
                   json |-> json,
                   baseline |-> baseline,
                   projection |-> projection,
                   response |-> retrospective_do_POST(json, baseline,
                                                      projection)]
    /\ UNCHANGED <<pipeline_vars, random_state, invocation, written>>

AnalyzeAreaPost ==
    /\ call = NoCall
    /\ \E request \in [missing : {{}, {"north"}, {"west"}},
                       north : {4040, 4041, 4043, 9100},
                       south : {4040, 4041},
                       east : {-370, -369, -367},
                       west : {-370, -369, -18100}] :
          call' = [fn |-> "analyze_area",
                   request |-> request,
                   response |-> analyze_area_endpoint(request)]
    /\ UNCHANGED <<pipeline_vars, random_state, invocation, written>>

HandlersNext ==
    \/ SpecializeTejadoPost
    \/ RetrospectivePost
    \/ AnalyzeAreaPost
    \/ Return

SpecHandlers == PipelineInit /\ [][HandlersNext]_vars

(***************************************************************************)
(* THE URBAN ANALYSIS ENGINE (src/backend/services/                        *)
(* urban_analysis_engine.py).  analyze_area samples the area at the points *)
(* of a grid, has the image of each point analysed and reports the         *)
(* rooftops it keeps.  A point is its number in the order of               *)
(* generate_grid_points (row by row from the south-west corner).           *)
(***************************************************************************)
\* grid_size of generate_grid_points: the grid has GridSize * GridSize
\* points (analyze_area passes 5)
GridSize == 2

\* int(score * (1 + confianza / 100 * 0.2 - 0.1)) truncates towards zero
estimate_rooftop_viability(tipo_cubierta, estado_conservacion, obstrucciones, confianza) ==
    LET base == 50
                + (IF tipo_cubierta = "plana" THEN 30
                   ELSE IF tipo_cubierta = "inclinada" THEN 10 ELSE 0)
                + (IF estado_conservacion = "excelente" THEN 20
                   ELSE IF estado_conservacion = "bueno" THEN 10
                   ELSE IF estado_conservacion = "regular" THEN -10
                   ELSE IF estado_conservacion = "malo" THEN -30 ELSE 0)
                - obstrucciones.len * 5
        scaled == base * (900 + 2 * confianza)
        score == IF scaled >= 0 THEN scaled \div 1000
                 ELSE -((-scaled) \div 1000)
    IN  Max(0, Min(100, score))

\* green_roof_opportunities.sort(key = viability_score, reverse = True)
RECURSIVE SortByViability(_)
SortByViability(s) ==
    IF s = <<>> THEN <<>>
    ELSE LET sorted == SortByViability(SubSeq(s, 1, Len(s) - 1))
             x == s[Len(s)]
             before == SelectSeq(sorted,
                           LAMBDA o : o.viability_score >= x.viability_score)
             after == SelectSeq(sorted,
                           LAMBDA o : o.viability_score < x.viability_score)
         IN  before \o <<x>> \o after

\* the exception of a point leaves analyze_area
ExceptRaise(loop) ==
    [loop EXCEPT !.pc = "raised", !.outcomes = Append(@, "raised")]

\* the loop leaves the try block of a point through "except Exception:
\* continue": the point is over, the loop goes on
ExceptContinue(loop) ==
    [loop EXCEPT !.i = @ + 1, !.outcomes = Append(@, "raised")]

\* the body of the loop of analyze_area for point loop.i + 1, whose image
\* the collaborator analysed as `analysis`: len(None) raises in
\* estimate_rooftop_viability, obs.get raises for an obstruction that is
\* not a dict when the opportunity is built
analyze_point(loop, analysis) ==
    LET i == loop.i + 1
        viability_score ==
            estimate_rooftop_viability(analysis.tipo_cubierta,
                analysis.estado_conservacion, analysis.obstrucciones,
                analysis.confianza)
    IN  IF analysis.obstrucciones.type = "null"
        THEN ExceptContinue(loop)
        ELSE IF viability_score < 50
        THEN [loop EXCEPT !.i = i, !.outcomes = Append(@, "discarded")]
        ELSE IF /\ analysis.obstrucciones.type = "strings"
                /\ analysis.obstrucciones.len > 0
        THEN ExceptContinue(loop)
        ELSE [loop EXCEPT
                 !.i = i,
                 !.outcomes = Append(@, "kept"),
                 !.green_roof_opportunities =
                     Append(@, [id |-> i,
                                area_m2 |-> 100,
                                viability_score |-> viability_score,
                                roof_type |-> analysis.tipo_cubierta,
                                condition |-> analysis.estado_conservacion,
                                estimated_cost_eur |-> 100 * 100,
                                co2_savings_kg_year |-> 100 * 3])]

(***************************************************************************)
(* A run of analyze_area, kept in `call`: i is the number of points the    *)
(* loop is through with, outcomes what became of each of them.  The        *)
(* bounds are those of a request that passed the checks of the endpoint;   *)
(* the process has the key of the image service or not for the whole run.  *)
(***************************************************************************)
StartAreaAnalysis ==
    /\ call = NoCall
    /\ \E has_api_key \in BOOLEAN, bounds \in {<<4041, -369>>, <<4043, -367>>} :
          LET north == bounds[1]
              east == bounds[2]
          IN  call' = [fn |-> "engine.analyze_area",
                       pc |-> IF calculate_area_km2(north, 4040, east, -370) > MAX_AREA_KM2
                              THEN "raised" ELSE "loop",
                       has_api_key |-> has_api_key,
                       north |-> north, south |-> 4040,
                       east |-> east, west |-> -370,
                       i |-> 0,
                       outcomes |-> <<>>,
                       green_roof_opportunities |-> <<>>,
                       report |-> Unset]
    /\ UNCHANGED <<pipeline_vars, random_state, invocation, written>>

\* one turn of the loop: the collaborator answers with the text "{}", with
\* a flat roof in good state, with a sloped roof in bad state and two
\* obstructions, or with obstructions that are null or a list of strings
AnalyzePoint ==
    /\ call.fn = "engine.analyze_area"
    /\ call.pc = "loop"
    /\ call.i < GridSize * GridSize
    /\ \E response \in
            { [json |-> TRUE, tipo_cubierta |-> "absent", estado |-> "absent",
               obstrucciones |-> [type |-> "absent", len |-> 0],
               confianza |-> None, others |-> FALSE],
              [json |-> TRUE, tipo_cubierta |-> "plana", estado |-> "bueno",
               obstrucciones |-> [type |-> "dicts", len |-> 0],
               confianza |-> 95, others |-> TRUE],
              [json |-> TRUE, tipo_cubierta |-> "inclinada", estado |-> "malo",
               obstrucciones |-> [type |-> "dicts", len |-> 2],
               confianza |-> 50, others |-> TRUE],
              [json |-> TRUE, tipo_cubierta |-> "plana", estado |-> "bueno",
               obstrucciones |-> [type |-> "null", len |-> 0],
               confianza |-> 95, others |-> TRUE],
              [json |-> TRUE, tipo_cubierta |-> "plana", estado |-> "bueno",
               obstrucciones |-> [type |-> "strings", len |-> 1],
               confianza |-> 95, others |-> TRUE] } :
          call' = analyze_point(call,
                      analyze_rooftop_image(call.has_api_key, TRUE, TRUE,
                                            response))
    /\ UNCHANGED <<pipeline_vars, random_state, invocation, written>>

\* after the loop: the sort, the summary and the report
BuildReport ==
    /\ call.fn = "engine.analyze_area"
    /\ call.pc = "loop"
    /\ call.i = GridSize * GridSize
    /\ LET green_roofs == SortByViability(call.green_roof_opportunities)
           n == Len(green_roofs)
       IN  call' = [call EXCEPT
              !.pc = "done",
              !.report =
                 [green_roofs |-> green_roofs,
                  summary |->
                     [total_opportunities |-> n,
                      total_investment_eur |->
                         SumSeq([k \in 1..n |-> green_roofs[k].estimated_cost_eur]),
                      total_co2_impact_kg_year |->
                         SumSeq([k \in 1..n |-> green_roofs[k].co2_savings_kg_year]),
                      total_green_area_m2 |->
                         SumSeq([k \in 1..n |-> green_roofs[k].area_m2])]]]
    /\ UNCHANGED <<pipeline_vars, random_state, invocation, written>>

EngineNext == StartAreaAnalysis \/ AnalyzePoint \/ BuildReport \/ Return

SpecEngine == PipelineInit /\ [][EngineNext]_vars

(***************************************************************************)
(* The simulator under concurrent calls.  analyze.py creates a generator   *)
(* random.Random(seed) in each call; utils/computer_vision.py seeds and    *)
(* draws from the generator of the random module, which every thread of    *)
(* the process shares, and its analyze_solar_exposure takes no seed.       *)
(* AnalysisEngine.computer_vision_layer calls the functions of analyze.py  *)
(* without a seed.                                                         *)
(***************************************************************************)
\* number of states of the model of a generator
RngModulus == 4

RngStates == 0..(RngModulus - 1)

\* state of a generator after seed(seed)
Seeded(seed) == (3 * seed + 1) % RngModulus

\* state of a generator after one draw
Advance(x) == (5 * x + 1) % RngModulus

\* the value a generator in state x draws from the values of S
\* (S = {v1 < v2 < ...}): the value of index (x div 2) mod |S|
DrawAt(x, S) ==
    LET k == (x \div 2) % Cardinality(S)
    IN  CHOOSE v \in S : Cardinality({ u \in S : u < v }) = k

\* the ranges of the uniform draws of a function, in the order it draws
DrawRanges(fn) ==
    IF fn = "segment_surfaces"
    THEN << Uniform(250, 350), Uniform(450, 550), Uniform(50, 150),
            Uniform(80, 120) >>
    ELSE << ShadowDraws >>

\* areas in 1e-4 m2 (0.006 m2 and 33.3333 m2) and seeds a run of the
\* simulator is given
SimAreas == { 60, 333333 }

SimSeeds == { None, 1, 2 }

\* latitude and longitude of the runs, in 1e-6 degree
SimLat == 40416800

SimLon == -3703800

\* the seed the function receives: computer_vision_layer passes none, and
\* analyze_solar_exposure of utils/computer_vision.py has no such parameter
SeedArgument(impl, fn, caller, fixed_seed) ==
    IF caller = "computer_vision_layer" THEN None
    ELSE IF impl = "utils" /\ fn = "analyze_solar_exposure" THEN None
    ELSE fixed_seed

\* a thread enters segment_surfaces or analyze_solar_exposure
Invoke(t) ==
    /\ invocation[t].pc = "idle"
    /\ \E impl \in {"analyze", "utils"},
          fn \in {"segment_surfaces", "analyze_solar_exposure"},
          caller \in {"direct", "computer_vision_layer"},
          area_m2 \in SimAreas, fixed_seed \in SimSeeds :
          /\ caller = "computer_vision_layer" => impl = "analyze"
          /\ invocation' = [invocation EXCEPT ![t] =
                [pc |-> "seed", impl |-> impl, fn |-> fn, caller |-> caller,
                 area_m2 |-> area_m2, fixed_seed |-> fixed_seed,
                 seed |-> SeedArgument(impl, fn, caller, fixed_seed),
                 rng |-> None, draws |-> <<>>, result |-> Unset]]
    /\ UNCHANGED <<pipeline_vars, call, random_state, written>>

\* rng = random.Random(seed) in analyze.py, a generator seeded from the
\* system when seed is None; in utils/computer_vision.py
\* `if seed is not None: random.seed(seed)` on the shared generator
SeedGenerator(t) ==
    LET i == invocation[t]
    IN  /\ i.pc = "seed"
        /\ IF i.impl = "analyze"
           THEN /\ \E x \in RngStates :
                      /\ i.seed # None => x = Seeded(i.seed)
                      /\ invocation' = [invocation EXCEPT
                            ![t].rng = x, ![t].pc = "draw"]
                /\ UNCHANGED random_state
           ELSE /\ random_state' = IF i.fn = "segment_surfaces"
                                      /\ i.seed # None
                                   THEN Seeded(i.seed) ELSE random_state
                /\ invocation' = [invocation EXCEPT ![t].pc = "draw"]
        /\ UNCHANGED <<pipeline_vars, call, written>>

\* one rng.uniform(lo, hi) or random.uniform(lo, hi)
DrawUniform(t) ==
    LET i == invocation[t]
        ranges == DrawRanges(i.fn)
        x == IF i.impl = "analyze" THEN i.rng ELSE random_state
        draws == Append(i.draws, DrawAt(x, ranges[Len(i.draws) + 1]))
    IN  /\ i.pc = "draw"
        /\ invocation' = [invocation EXCEPT
              ![t].draws = draws,
              ![t].rng = IF i.impl = "analyze" THEN Advance(x) ELSE None,
              ![t].pc = IF Len(draws) = Len(ranges) THEN "return"
                        ELSE "draw"]
        /\ random_state' = IF i.impl = "analyze" THEN random_state
                           ELSE Advance(x)
        /\ UNCHANGED <<pipeline_vars, call, written>>

\* what the function returns on the values it has drawn
SimResult(fn, area_m2, draws) ==
    IF fn = "segment_surfaces"
    THEN segment_surfaces(area_m2,
             [asfalto |-> draws[1], grava |-> draws[2],
              vegetacion |-> draws[3], obstaculos |-> draws[4]])
    ELSE analyze_solar_exposure(SimLat, SimLon, area_m2, draws[1])

\* the rest of the function's body and its return
ReturnResult(t) ==
    LET i == invocation[t]
    IN  /\ i.pc = "return"
        /\ invocation' = [invocation EXCEPT
              ![t].result = SimResult(i.fn, i.area_m2, i.draws),
              ![t].pc = "done"]
        /\ UNCHANGED <<pipeline_vars, call, random_state, written>>

\* the caller has taken the result
Release(t) ==
    /\ invocation[t].pc = "done"
    /\ invocation' = [invocation EXCEPT ![t] = Idle]
    /\ UNCHANGED <<pipeline_vars, call, random_state, written>>

\* at import the generator of the random module is seeded from the system
SimInit ==
    /\ pc = "idle"
    /\ coordinates = <<>>
    /\ center = <<0, 0>>
    /\ geo_data = Unset
    /\ vision_data = Unset
    /\ locals = Unset
    /\ report = Unset
    /\ call = NoCall
    /\ random_state \in RngStates
    /\ written = {}
    /\ invocation = [t \in Threads |-> Idle]

SimNext ==
    \E t \in Threads :
        \/ Invoke(t)
        \/ SeedGenerator(t)
        \/ DrawUniform(t)
        \/ ReturnResult(t)
        \/ Release(t)

SpecSim == SimInit /\ [][SimNext]_vars

(***************************************************************************)
(* PROPERTIES                                                              *)
(***************************************************************************)
\* the last call was recommend_species_by_context
Recommended == call.fn = "recommend_species_by_context"

\* C1: if recommend_species_by_context returns a species for a site with
\* available substrate depth d and admissible load L, the species' minimum
\* substrate depth is <= d and its maximum load is <= L.
C1_DepthAndLoadRespected ==
    Recommended =>
        LET d == call.caracteristicas.profundidad_sustrato_cm
            L == call.caracteristicas.carga_admisible_kg_m2
        IN  \A i \in 1..Len(call.result) :
                LET r == call.result[i].especie.restricciones
                IN  /\ d # None => r.profundidad_minima_cm <= d
                    /\ L # None => r.peso_max_kg_m2 <= L

\* a site with depth and load given, on which species are recommended while
\* a catalogue species needs more depth and another one bears more load
C1_Witness ==
    /\ Recommended
    /\ call.caracteristicas.profundidad_sustrato_cm # None
    /\ call.caracteristicas.carga_admisible_kg_m2 # None
    /\ call.result # <<>>
    /\ \E i, j \in 1..Len(ESPECIES_DATABASE) :
          /\ ESPECIES_DATABASE[i].restricciones.profundidad_minima_cm
                > call.caracteristicas.profundidad_sustrato_cm
          /\ ESPECIES_DATABASE[j].restricciones.peso_max_kg_m2
                > call.caracteristicas.carga_admisible_kg_m2

\* C2: a polygon with fewer than 3 points never makes a layer raise, and the
\* report of its analysis has area_m2 = 0 and a computed green_score.
C2_ShortPolygonCompletes ==
    Len(coordinates) < 3 =>
        /\ pc # "raised"
        /\ pc = "done" =>
              /\ report.success
              /\ report.area_m2 = 0
              /\ report.green_score # ZeroDivisionError
              /\ report.green_score >= 0

\* the analysis of two distinct points has returned its report
C2_Witness ==
    /\ pc = "done"
    /\ Len(coordinates) = 2
    /\ coordinates[1] # coordinates[2]
    /\ report.green_score > 0

\* C3: whenever the usable area is zero, the report's list of recommended
\* species is empty.
C3_ZeroAreaNoSpecies ==
    (pc = "done" /\ locals.area_util_m2 = 0) =>
        report.especies_recomendadas = <<>>

\* C4: whenever the usable area is zero, the budget has total initial cost 0
\* and every line item is 0.
C4_ZeroAreaZeroBudget ==
    (pc = "done" /\ locals.area_util_m2 = 0) =>
        /\ report.presupuesto.coste_total_inicial_eur = 0
        /\ \A k \in DOMAIN report.presupuesto.desglose :
              report.presupuesto.desglose[k] = 0

\* C5: a polygon with at least 3 vertices has area_m2 >= 0 and
\* perimeter_m >= 0; a polygon with fewer than 3 vertices has area_m2 = 0
\* and perimeter_m = 0.
C5_AreaAndPerimeter ==
    geo_data # Unset =>
        IF Len(coordinates) >= 3
        THEN geo_data.area_m2 >= 0 /\ geo_data.perimetro_m >= 0
        ELSE geo_data.area_m2 = 0 /\ geo_data.perimetro_m = 0

\* the zones of the table whose bounding box contains the point of the call
ZonasQueContienen ==
    { i \in 1..Len(ZONAS_SUBVENCION) :
        point_in_bounds(call.lat, call.lon, ZONAS_SUBVENCION[i].bounds) }

\* C6: the subsidy lookup returns the percentage and programme of the first
\* zone, in table order, whose bounding box contains the point, and returns
\* not eligible with percentage 0 only when no zone contains the point.
C6_FirstMatchWins ==
    call.fn = "check_subsidy_eligibility" =>
        IF ZonasQueContienen = {}
        THEN ~ call.result.elegible /\ call.result.porcentaje = 0
        ELSE LET first == CHOOSE i \in ZonasQueContienen :
                              \A k \in ZonasQueContienen : i <= k
             IN  /\ call.result.elegible
                 /\ call.result.porcentaje = ZONAS_SUBVENCION[first].porcentaje
                 /\ call.result.programa = ZONAS_SUBVENCION[first].programa
                 /\ call.result.zona = ZONAS_SUBVENCION[first].nombre

\* a point that all four zones contain has got the first zone's percentage
C6_Witness ==
    /\ call.fn = "check_subsidy_eligibility"
    /\ Cardinality(ZonasQueContienen) = Len(ZONAS_SUBVENCION)
    /\ call.result.porcentaje = ZONAS_SUBVENCION[1].porcentaje

\* the last call was calculate_subsidy_amount
Subsidised == call.fn = "calculate_subsidy_amount"

\* coste_total x porcentaje / 100 of the call, in 1e-5 euro
MontoExacto == call.coste_total * call.porcentaje

C8_AmountWithinCap ==
    (Subsidised /\ call.tope_maximo # None) =>
        call.result.monto_subvencion_eur * 10 <= call.tope_maximo

\* annual benefit minus annual maintenance cost of the analysis, in cents
BeneficioNetoAnual ==
    locals.ahorro_anual_total - locals.presupuesto.mantenimiento_anual_eur

\* C9: the payback is the sentinel 999 exactly when the net annual benefit
\* is <= 0, and is otherwise positive and equal to
\* net_investment / net_annual_benefit.
C9_PaybackSentinel ==
    pc = "done" =>
        /\ report.roi_ambiental.amortizacion_anos = SENTINEL * 10
              <=> BeneficioNetoAnual <= 0
        /\ BeneficioNetoAnual > 0 =>
              /\ report.roi_ambiental.amortizacion_anos > 0
              /\ report.roi_ambiental.amortizacion_anos =
                    RoundDiv(locals.inversion_neta * 10, BeneficioNetoAnual)

\* C10: the annual benefit from which roi_porcentaje and the payback are
\* derived is the annual saving minus the annual maintenance cost.
C10_NetOfMaintenance ==
    pc = "done" =>
        /\ locals.inversion_neta > 0 =>
              report.roi_ambiental.roi_porcentaje =
                 RoundDiv(BeneficioNetoAnual * 10000, locals.inversion_neta)
        /\ locals.ahorro_anual_total > 0 =>
              report.roi_ambiental.amortizacion_anos =
                 IF BeneficioNetoAnual > 0
                 THEN RoundDiv(locals.inversion_neta * 10, BeneficioNetoAnual)
                 ELSE SENTINEL * 10

\* two runs of the same function on the same inputs with the same seed
SameSeededRun(i, j) ==
    /\ i.pc = "done" /\ j.pc = "done"
    /\ i.impl = j.impl /\ i.fn = j.fn /\ i.caller = j.caller
    /\ i.area_m2 = j.area_m2
    /\ i.fixed_seed # None /\ i.fixed_seed = j.fixed_seed

\* C11: two runs on identical inputs with the same fixed seed return
\* identical segmentation and solar exposure outputs, in analyze.py, in
\* utils/computer_vision.py and through computer_vision_layer.
C11_SeededRunsAgree ==
    \A t, u \in Threads :
        SameSeededRun(invocation[t], invocation[u]) =>
            invocation[t].result = invocation[u].result

\* the values a generator of its own, seeded with seed, draws for fn
RECURSIVE PrivateDraws(_, _, _)
PrivateDraws(fn, x, k) ==
    IF k > Len(DrawRanges(fn)) THEN <<>>
    ELSE <<DrawAt(x, DrawRanges(fn)[k])>> \o PrivateDraws(fn, Advance(x), k + 1)

\* C12: every call draws from a generator of its own, so the output of a
\* call that received a seed is the same under every interleaving with the
\* steps of another call.
C12_SeededCallIsolated ==
    \A t \in Threads :
        LET i == invocation[t]
        IN  (i.pc = "done" /\ i.seed # None) =>
                i.result = SimResult(i.fn, i.area_m2,
                               PrivateDraws(i.fn, Seeded(i.seed), 1))

\* C13: on every request the layers run in the order geospatial,
\* environmental, value generation: a layer starts only when the previous
\* one has produced its output, and the report is returned only by the
\* third layer.
C13_LayerOrder ==
    [][ pc' # pc =>
          /\ pc' = "geospatial" => pc = "idle"
          /\ pc' = "vision" => pc = "geospatial" /\ geo_data' # Unset
          /\ pc' = "value" =>
                pc = "vision" /\ geo_data' # Unset /\ vision_data' # Unset
          /\ pc' = "done" =>
                /\ pc = "value"
                /\ geo_data' # Unset /\ vision_data' # Unset
                /\ report' # Unset
          /\ pc' = "raised" => pc \in {"vision", "value"} ]_vars

\* a request on a triangle has gone through the three layers
C13_Witness ==
    /\ pc = "done"
    /\ Len(coordinates) >= 3
    /\ geo_data.area_m2 > 0
    /\ vision_data.segmentation.area_util_m2 > 0
    /\ report.success

SumOfLineItems(presupuesto) ==
    LET d == presupuesto.desglose
    IN  d.sustrato_eur + d.drenaje_eur + d.membrana_impermeable_eur
        + d.lamina_antiraices_eur + d.geotextil_eur + d.plantas_eur
        + d.instalacion_eur + d.riego_eur

\* C16: for every area and every species selection the total initial cost
\* of the budget equals the sum of the line items the budget reports, to
\* the cent.
C16_TotalIsSumOfItems ==
    call.fn = "calculate_budget" =>
        call.result.coste_total_inicial_eur = SumOfLineItems(call.result)

\* C17: for every area >= 0 and every draw, the segmentation that
\* segment_surfaces returns satisfies usable area = area - obstacle area
\* and 0 <= usable area <= area (the area in 1e-4 m2, the areas returned
\* in 1e-2 m2).
C17_UsableArea ==
    \A t \in Threads :
        LET i == invocation[t]
        IN  (i.pc = "done" /\ i.fn = "segment_surfaces") =>
                /\ i.result.area_util_m2 * 100
                     = i.area_m2 - i.result.obstaculos_m2 * 100
                /\ 0 <= i.result.area_util_m2
                /\ i.result.area_util_m2 * 100 <= i.area_m2

\* C18: for a fixed total area and fixed coefficients, a larger green area
\* never yields a smaller reported green factor.
C18_FactorVerdeMonotone ==
    call.fn = "calculate_factor_verde" =>
        call.result.factor_verde <= call.result_mayor.factor_verde

\* two green areas of the same roof, the larger with the larger factor
C18_Witness ==
    /\ call.fn = "calculate_factor_verde"
    /\ call.area_total_m2 > 0
    /\ call.area_verde_m2 < call.area_verde_mayor_m2
    /\ call.result.factor_verde < call.result_mayor.factor_verde

\* the context the last call resolved from its site type and depth
RequestContext == ContextKey(call.tipo_especializacion, call.caracteristicas)

\* C19 as stated: every species recommend_species_by_context returns
\* declares the installation context of the request among its
\* contextos_validos (for a roof, the context resolved from the substrate
\* depth).
C19_ContextDeclared ==
    Recommended =>
        \A k \in DOMAIN call.result :
            RequestContext \in call.result[k].especie.contextos_validos

\* C19: every species recommend_species_by_context returns declares the
\* installation context of the request, where a roof with a substrate of
\* 15 to 29 cm (or of no stated depth) is a semi-intensive roof, a context
\* no species declares by name: there the species returned declare both the
\* extensive and the intensive roof.
C19_ContextDeclaredOrBothRoofs ==
    Recommended =>
        \A k \in DOMAIN call.result :
            LET contextos == call.result[k].especie.contextos_validos
            IN  IF RequestContext = "semi_intensivo"
                THEN {"tejado_extensivo", "tejado_intensivo"} \subseteq contextos
                ELSE RequestContext \in contextos

\* a semi-intensive roof for which species are returned
C19_Witness ==
    /\ Recommended
    /\ call.tipo_especializacion = "tejado"
    /\ call.caracteristicas.profundidad_sustrato_cm = 20
    /\ Len(call.result) > 0

\* the exposure the last call classified its site with: pleno_sol when
\* caracteristicas has no exposicion_solar
SiteExposure ==
    IF call.caracteristicas.exposicion_solar = "absent" THEN "pleno_sol"
    ELSE call.caracteristicas.exposicion_solar

\* C20: no full-sun species is returned for a site classified as shade and
\* no shade species for a site classified as full sun; a site classified as
\* mixed (media_sombra) accepts both: with room for every species
\* (max_especies = 10), each species of the catalogue that passes the
\* context and constraint filters is returned, whatever sun it requires.
C20_SunCompatible ==
    Recommended =>
        /\ \A k \in DOMAIN call.result :
              LET req_sol == call.result[k].especie.requerimientos_sol
              IN  /\ ~ (SiteExposure = "sombra" /\ req_sol = "pleno_sol")
                  /\ ~ (SiteExposure = "pleno_sol" /\ req_sol = "sombra")
        /\ (SiteExposure = "media_sombra" /\ call.max_especies = 10) =>
              \A i \in DOMAIN ESPECIES_DATABASE :
                  ( /\ PassesContext(ESPECIES_DATABASE[i], RequestContext)
                    /\ PassesConstraints(ESPECIES_DATABASE[i],
                                         call.caracteristicas) )
                  => \E k \in DOMAIN call.result :
                        call.result[k].especie = ESPECIES_DATABASE[i]

\* a shade site for which species are returned while a full-sun species of
\* the catalogue passes the other two filters
C20_Witness ==
    /\ Recommended
    /\ SiteExposure = "sombra"
    /\ Len(call.result) > 0
    /\ \E i \in DOMAIN ESPECIES_DATABASE :
          /\ ESPECIES_DATABASE[i].requerimientos_sol = "pleno_sol"
          /\ PassesContext(ESPECIES_DATABASE[i], RequestContext)
          /\ PassesConstraints(ESPECIES_DATABASE[i], call.caracteristicas)

\* the indices of the catalogue species that pass the three filters of the
\* last call
PassingSpecies ==
    { i \in DOMAIN ESPECIES_DATABASE :
        /\ PassesContext(ESPECIES_DATABASE[i], RequestContext)
        /\ PassesConstraints(ESPECIES_DATABASE[i], call.caracteristicas)
        /\ PassesSun(ESPECIES_DATABASE[i], call.caracteristicas) }

\* C21: the list recommend_species_by_context returns is in non-increasing
\* order of idoneidad_score, has at most max_especies entries, and these
\* are the highest-scored of the species that passed the filters: a passing
\* species is left out only when the list is full and every entry scores at
\* least as much.
C21_SortedTopN ==
    Recommended =>
        /\ \A k \in 1..(Len(call.result) - 1) :
              call.result[k].idoneidad_score
                 >= call.result[k + 1].idoneidad_score
        /\ Len(call.result) <= call.max_especies
        /\ \A i \in PassingSpecies :
              \/ \E k \in DOMAIN call.result :
                    call.result[k].especie = ESPECIES_DATABASE[i]
              \/ /\ Len(call.result) = call.max_especies
                 /\ \A k \in DOMAIN call.result :
                       call.result[k].idoneidad_score
                          >= calculate_suitability_score(ESPECIES_DATABASE[i],
                                 call.caracteristicas, call.prioridad)

\* a full list of at least two entries with different scores, while more
\* species passed the filters than were returned
C21_Witness ==
    /\ Recommended
    /\ call.max_especies >= 2
    /\ Len(call.result) = call.max_especies
    /\ Cardinality(PassingSpecies) > call.max_especies
    /\ call.result[1].idoneidad_score > call.result[2].idoneidad_score

\* C22: for every species of the catalogue, the site characteristics and
\* the priority profile of the call (an unknown profile name included), each
\* sub-score lies in [0, 1] (in 1e-3) and the suitability score lies in
\* [0, 100] (in 1e-2 point).
C22_ScoresBounded ==
    Recommended =>
        \A i \in DOMAIN ESPECIES_DATABASE :
            LET sub == SubScores(ESPECIES_DATABASE[i])
                score == calculate_suitability_score(ESPECIES_DATABASE[i],
                             call.caracteristicas, call.prioridad)
            IN  /\ \A k \in DOMAIN sub : sub[k] >= 0 /\ sub[k] <= 1000
                /\ score >= 0 /\ score <= 10000

\* a call with an unknown profile name that returns a species capturing
\* more than 5 kg of CO2 per m2, scored above 0
C22_Witness ==
    /\ Recommended
    /\ call.prioridad = "desconocida"
    /\ \E k \in DOMAIN call.result :
          /\ call.result[k].especie.beneficios_ambientales.co2_kg_m2_anual > 50
          /\ call.result[k].idoneidad_score > 0

\* the collaborator failed in the last call: no credentials, a download or
\* network error, a response that is not JSON, or a missing required field
CollaboratorFailed ==
    \/ ~ call.credentials
    \/ call.service = "backend" /\ ~ call.downloaded
    \/ ~ call.answered
    \/ ~ call.response.json
    \/ call.response.tipo_cubierta = "absent"
    \/ call.response.confianza = None
    \/ ~ call.response.others

\* C23: on every failure of the image-analysis collaborator the analysis
\* function returns a fallback result whose roof type is "desconocido" and
\* whose confidence lies between 20 and 50.
C23_FallbackOnFailure ==
    (call.fn = "analyze_rooftop" /\ CollaboratorFailed) =>
        /\ call.result.tipo_cubierta = "desconocido"
        /\ call.result.confianza >= 20
        /\ call.result.confianza <= 50

\* the required fields of the request of a handler that are missing or
\* invalid
OffendingFields ==
    IF call.fn = "specialize_tejado" /\ call.json
    THEN { f \in {"analisis_id"} : call.analisis_id = "absent" }
         \cup { f \in {"area_base_m2"} :
                    \/ call.area_base_m2.type # "number"
                    \/ call.area_base_m2.value <= 0 }
    ELSE IF call.fn = "retrospective" /\ call.json
    THEN { f \in {"baseline"} : ~ call.baseline.present }
         \cup { f \in {"projection"} : ~ call.projection.present }
         \cup { f \in {"area_m2"} :
                    call.baseline.present /\ call.baseline.area_m2 # "number" }
         \cup { f \in {"tipo_superficie"} :
                    /\ call.baseline.present
                    /\ call.baseline.tipo_superficie = "absent" }
         \cup { f \in {"tipo_cubierta"} :
                    /\ call.projection.present
                    /\ call.projection.tipo_cubierta = "absent" }
    ELSE IF call.fn = "analyze_area"
    THEN InvalidFields(call.request)
         \cup { f \in {"north", "south"} :
                    call.request.north <= call.request.south }
         \cup { f \in {"east", "west"} :
                    call.request.east <= call.request.west }
    ELSE {}

\* C24: a request that fails validation (a required field missing or
\* invalid, or invalid bounds) is answered with an error kind other than
\* the one of a failed computation (status 500), and the error names an
\* offending field.
C24_ValidationErrorNamesField ==
    OffendingFields # {} =>
        /\ call.response.status # 500
        /\ call.response.fields \cap OffendingFields # {}

\* C26: every green-roof opportunity of the report of analyze_area has a
\* viability score above 50 (a point that scores 50 or less is discarded).
C26_OpportunitiesAboveFifty ==
    (call.fn = "engine.analyze_area" /\ call.pc = "done") =>
        \A k \in 1..Len(call.report.green_roofs) :
            call.report.green_roofs[k].viability_score > 50

\* C28: when the analysis of a point raises, analyze_area still goes
\* through every point in order and returns a report; the point that
\* failed is no opportunity of the report and every point that was kept
\* is one.
C28_FailedPointSkipped ==
    /\ call.fn = "engine.analyze_area" =>
          /\ Len(call.outcomes) = call.i
          /\ (\E p \in 1..Len(call.outcomes) : call.outcomes[p] = "raised")
                => call.pc # "raised"
    /\ (call.fn = "engine.analyze_area" /\ call.pc = "done") =>
          /\ call.i = GridSize * GridSize
          /\ \A p \in 1..call.i :
                Cardinality({ k \in 1..Len(call.report.green_roofs) :
                                 call.report.green_roofs[k].id = p })
                    = IF call.outcomes[p] = "kept" THEN 1 ELSE 0

\* a report of a run in which a point raised and a later point was kept
C28_Witness ==
    /\ call.fn = "engine.analyze_area"
    /\ call.pc = "done"
    /\ \E p, q \in 1..call.i :
          /\ p < q
          /\ call.outcomes[p] = "raised"
          /\ call.outcomes[q] = "kept"

\* C30: whenever analyze_roof_characteristics recommends a green-roof type
\* for the capacity of a building-age class, calculate_structural_cte for
\* that capacity and type reports cumple_cte true and a structural
\* viability other than "nula".
C30_RecommendedTypeCompliesCTE ==
    ( /\ call.fn = "specialize_tejado"
      /\ call.response.status = 200
      /\ call.building_age \in DOMAIN TYPICAL_ROOF_CAPACITY
      /\ call.response.caracteristicas_tejado.tipo_verde_recomendado
             \in DOMAIN GREEN_ROOF_WEIGHTS ) =>
        /\ call.response.calculo_estructural_cte.cumple_cte
        /\ call.response.calculo_estructural_cte.viabilidad_estructural # "nula"

\* the percentage check_subsidy_eligibility returns for the point of the
\* call, and the list get_all_available_programs returns for it
PorcentajeOfCall ==
    IF call.fn = "check_subsidy_eligibility" THEN call.result.porcentaje
    ELSE check_subsidy_eligibility(call.lat, call.lon).porcentaje

ProgramsOfCall ==
    IF call.fn = "get_all_available_programs" THEN call.result
    ELSE get_all_available_programs(call.lat, call.lon)

\* C27: for every point the percentage of check_subsidy_eligibility is the
\* highest percentage of the zones whose bounding box contains the point;
\* it is the percentage of the first entry of get_all_available_programs
\* and 0 exactly when that list is empty.
C27_PercentageIsMaximum ==
    call.fn \in {"check_subsidy_eligibility", "get_all_available_programs"} =>
        /\ \A i \in ZonasQueContienen :
              ZONAS_SUBVENCION[i].porcentaje <= PorcentajeOfCall
        /\ ZonasQueContienen # {} =>
              \E i \in ZonasQueContienen :
                  ZONAS_SUBVENCION[i].porcentaje = PorcentajeOfCall
        /\ Len(ProgramsOfCall) = Cardinality(ZonasQueContienen)
        /\ PorcentajeOfCall = 0 <=> ProgramsOfCall = <<>>
        /\ ProgramsOfCall # <<>> =>
              ProgramsOfCall[1].porcentaje = PorcentajeOfCall

\* the list of a point that several zones contain has been returned
C27_Witness ==
    /\ call.fn = "get_all_available_programs"
    /\ Len(call.result) >= 2
    /\ call.result[1].porcentaje > call.result[2].porcentaje

\* C25: no division of the pipeline or of calculate_roi faults, and a
\* ratio whose denominator (the area, the usable area, the investment, the
\* annual saving or net benefit) is zero is 0, or the sentinel 999 for the
\* payback.
C25_ZeroDenominatorGuarded ==
    /\ pc # "raised"
    /\ pc = "done" =>
          /\ locals.area_m2 = 0 =>
                /\ locals.fv_result.factor_verde = 0
                /\ vision_data.segmentation.area_util_pct = 0
          /\ locals.area_util_m2 = 0 =>
                /\ locals.presupuesto.coste_por_m2_eur = 0
                /\ locals.beneficio_ecosistemico_score = 0
          /\ locals.ahorro_anual_total = 0 =>
                report.roi_ambiental.amortizacion_anos = SENTINEL * 10
          /\ locals.inversion_neta = 0 =>
                report.roi_ambiental.roi_porcentaje = 0
    /\ call.fn = "calculate_roi" =>
          /\ call.result.roi_porcentaje # ZeroDivisionError
          /\ call.result.payback_anos # ZeroDivisionError
          /\ call.coste_inicial = 0 => call.result.roi_porcentaje = 0
          /\ call.ahorro_anual = call.mantenimiento_anual =>
                call.result.payback_anos = SENTINEL * 10

\* the report of a polygon of area zero: the usable area and the annual
\* saving are zero as well
C25_Witness ==
    /\ pc = "done"
    /\ locals.area_m2 = 0
    /\ locals.area_util_m2 = 0
    /\ locals.ahorro_anual_total = 0
    /\ report.roi_ambiental.amortizacion_anos = SENTINEL * 10

\* C29: for every polygon the green factor the pipeline computes from the
\* area and the usable area of the segmentation (extensive roof, extensive
\* cover, any orientation) is below the minimum 0.6, so cumple_todos is
\* false and the compliance component of green_score is 7.5.
C29_NeverCompliant ==
    \A t \in Threads :
        LET i == invocation[t]
        IN  (i.pc = "done" /\ i.fn = "segment_surfaces") =>
                \A horas_sol \in {1700, 1800, 2000, 2200, 2400} :
                    LET fv_result ==
                            calculate_factor_verde(i.area_m2,
                                i.result.area_util_m2 * 100, "extensiva",
                                get_orientation_from_solar_hours(horas_sol),
                                "cubierta_vegetal_extensiva")
                        requisitos ==
                            validate_requirements(RoundDiv(i.area_m2, 100), 0,
                                fv_result.factor_verde, 100, "extensiva")
                    IN  /\ fv_result.factor_verde
                              < REQUISITOS_MINIMOS.factor_verde_min_extensiva
                        /\ ~ requisitos.factor_verde_minimo
                        /\ ~ requisitos.cumple_todos
                        /\ GreenScoreComponents(fv_result.factor_verde,
                               horas_sol, i.result.area_util_pct, 0,
                               requisitos.cumple_todos).compliance_score
                              = 75000

\* the report of a request never has cumple_todos true
NeverCumpleTodos ==
    pc = "done" =>
        /\ ~ report.normativa.cumple_pecv_madrid
        /\ report.normativa.factor_verde
              < REQUISITOS_MINIMOS.factor_verde_min_extensiva

====
